---------------------------- MODULE Spec2Model ----------------------------
(***************************************************************************)
(* A model of the multi-hop query generation engine of qgen:               *)
(*   - ChunkCombinationFinder      (core/adversarial_generation.py)        *)
(*   - AdversarialMultiHopGenerator (core/adversarial_generation.py)       *)
(*   - RAGQueryQualityFilter       (core/rag_quality.py)                   *)
(*   - BaseEmbeddingProvider / EmbeddingCache (core/embedding_providers.py)*)
(* Each component has its own specification over the shared variables; the *)
(* variables of the other components stay at their initial value.          *)
(***************************************************************************)
EXTENDS Integers, Sequences, FiniteSets, TLC

VARIABLES
    \* ---- ChunkCombinationFinder.find_multihop_combinations ----
    chunks_map,             \* chunk id -> related_chunks (a list of ids)
    facts,                  \* the chunk_id of each ExtractedFact, in order
    chunk_range,            \* config.multihop_chunk_range = <<min_size, max_size>>
    fpc,                    \* position inside find_multihop_combinations
    fi,                     \* index of the current fact
    ri,                     \* index into the current chunk's related_chunks
    base_combo,             \* the combination being extended
    target_size,            \* random.randint(min_size, max_size)
    available_chunks,       \* the candidate set of the extension loop
    similarity,             \* cosine similarity level of each pair of chunks
    explicit_combinations,
    semantic_combinations,
    unique_combinations,
    valid_combinations,
    \* ---- AdversarialMultiHopGenerator.generate_multihop_queries ----
    per_combination,        \* config.multihop_queries_per_combination
    gpc,                    \* position inside generate_multihop_queries
    ci,                     \* index of the current combination
    qi,                     \* index of the attempt for this combination
    attempts,               \* one record per call of generate_text
    gen_queries,            \* the list being returned
    \* ---- RAGQueryQualityFilter.filter_queries ----
    queries,                \* the input list of RAGQuery
    threshold2,             \* 2 * config.min_realism_score
    qpc,                    \* position inside filter_queries
    i,                      \* loop index (0-based, as enumerate)
    passed_queries,         \* indices of the queries in passed
    failed_queries,         \* indices of the queries in failed
    scoring_stats,          \* the statistics dict being returned
    progress_calls,         \* the (current, total) of each progress_callback call
    outcomes,               \* what generate_structured did, per call
    \* ---- BaseEmbeddingProvider.encode with an EmbeddingCache ----
    cache_files,            \* cache path -> pickled vector
    encode_calls,           \* number of encode calls so far
    backend_calls,          \* number of _encode_batch calls so far
    last_call,              \* the last encode call: input, misses, result
    stored_ok,              \* (model, text) pairs written to the cache and intact
    returned,               \* (model, text) -> the vector encode last returned for it
    \* ---- EmbeddingProviderFactory and the embedding backend ----
    available,              \* the providers whose is_available() succeeds
    encode_ok,              \* whether the selected provider can encode
    embedding_provider,     \* the provider the generator holds ("None" before)
    created,                \* the create_provider calls made, with their results
    \* ---- ChunkProcessor ----
    jsonl_dir,              \* file name -> lines, the *.jsonl files of chunks_dir
    self_chunk_ids,         \* self.chunk_ids of the processor
    loads,                  \* the load calls made on the processor, with results
    \* ---- ChunkData.model_validate ----
    obj,                    \* the input record
    validated,              \* what model_validate did with it
    \* ---- two encode calls racing on one cache file ----
    cache_file,             \* the content of the file of the shared cache key
    rpc,                    \* process -> its position in encode
    encoded                 \* process -> what its encode call did

finderVars == <<chunks_map, facts, chunk_range, fpc, fi, ri, base_combo,
                target_size, available_chunks, similarity,
                explicit_combinations, semantic_combinations,
                unique_combinations, valid_combinations>>
genVars    == <<per_combination, gpc, ci, qi, attempts, gen_queries>>
filterVars == <<queries, threshold2, qpc, i, passed_queries, failed_queries,
                scoring_stats, progress_calls, outcomes>>
embedVars  == <<cache_files, encode_calls, backend_calls, last_call, stored_ok,
                returned>>
factoryVars == <<available, encode_ok, embedding_provider, created>>
loaderVars == <<jsonl_dir, self_chunk_ids, loads>>
validateVars == <<obj, validated>>
raceVars   == <<cache_file, rpc, encoded>>
vars       == <<finderVars, genVars, filterVars, embedVars, factoryVars,
                loaderVars, validateVars, raceVars>>

-----------------------------------------------------------------------------
(* Bounds of the model                                                      *)

MaxRelations == 2   \* related_chunks entries in the whole corpus
MaxFacts     == 2   \* facts handed to the finder
MaxSize      == 3   \* largest max_size of multihop_chunk_range
MaxSim       == 2   \* similarity levels 0..MaxSim
MaxQueries   == 5   \* queries handed to the quality filter
MaxPipelineFacts   == 1 \* facts handed to generate_multihop_queries
MaxPerCombination  == 2 \* largest multihop_queries_per_combination
MaxTexts     == 2   \* texts handed to one encode call
MaxEncodeCalls == 3 \* encode calls in one run
MaxLines == 2        \* lines of one JSONL file
MaxLoads == 2        \* load calls on one processor
MaxExplicitRelations == 3   \* related_chunks entries of a corpus of the explicit strategy alone
MaxReplyLen == 4     \* tokens of an arbitrary reply
MaxBodyLen == 2      \* tokens after the tag in a section of a sectioned reply
MaxRaceCalls == 2    \* encode calls of one process on the shared key
MaxFactoryCalls == 3 \* create_provider calls in one run

-----------------------------------------------------------------------------
(* Generic helpers                                                          *)

Range(s) == {s[k] : k \in 1..Len(s)}

SeqsUpTo(S, n) == UNION {[1..k -> S] : k \in 0..n}

-----------------------------------------------------------------------------
(* The corpus                                                               *)

ChunkIds == {"A", "B", "C"}     \* the keys of chunks_map
AbsentId == "X"                 \* an id that no chunk of the corpus has
AllIds   == ChunkIds \cup {AbsentId}

\* Python's order on the id strings (sorted() in _deduplicate_combinations)
IdOrd(id) == CASE id = "A" -> 1 [] id = "B" -> 2 [] id = "C" -> 3 [] OTHER -> 4

RelatedLists == SeqsUpTo(AllIds, MaxRelations)

Corpora ==
    {m \in [ChunkIds -> RelatedLists] :
        Len(m["A"]) + Len(m["B"]) + Len(m["C"]) <= MaxRelations}

SizeRanges == {r \in (1..MaxSize) \X (1..MaxSize) : r[1] <= r[2]}


-----------------------------------------------------------------------------
(* ChunkCombinationFinder: pure helpers                                     *)

RECURSIVE Insert(_, _)
\* insert id x into the sorted list s
Insert(x, s) ==
    IF s = <<>> THEN <<x>>
    ELSE IF IdOrd(x) <= IdOrd(Head(s)) THEN <<x>> \o s
    ELSE <<Head(s)>> \o Insert(x, Tail(s))

\* a mutation of Sorted: the combination is not sorted before it is compared
SortedIdentity(combo) == combo

RECURSIVE Sorted(_)
\* tuple(sorted(combo))
Sorted(combo) ==
    IF combo = <<>> THEN <<>> ELSE Insert(Head(combo), Sorted(Tail(combo)))

RECURSIVE DedupFrom(_, _)
\* the loop of _deduplicate_combinations with the set `seen` of sorted tuples
DedupFrom(combinations, seen) ==
    IF combinations = <<>> THEN <<>>
    ELSE LET combo        == Head(combinations)
             sorted_combo == Sorted(combo)
         IN  IF sorted_combo \notin seen
             THEN <<combo>> \o DedupFrom(Tail(combinations), seen \cup {sorted_combo})
             ELSE DedupFrom(Tail(combinations), seen)

\* a mutation of _deduplicate_combinations: nothing is removed
DeduplicateNothing(combinations) == combinations

_deduplicate_combinations(combinations) == DedupFrom(combinations, {})

\* a mutation of InChunksMap: the membership test always succeeds
InChunksMapAlways(chunk_id, cmap) == TRUE

\* `chunk_id in chunks_map`, as tested on a candidate before it is appended
\* (extension loop) and on every id of a combination (_validate_combinations)
InChunksMap(chunk_id, cmap) == chunk_id \in DOMAIN cmap

RECURSIVE _validate_combinations(_, _)
_validate_combinations(combinations, cmap) ==
    IF combinations = <<>> THEN <<>>
    ELSE LET combo == Head(combinations)
         IN  (IF \A k \in 1..Len(combo) : InChunksMap(combo[k], cmap)
              THEN <<combo>> ELSE <<>>)
             \o _validate_combinations(Tail(combinations), cmap)

\* cosine similarity of two different chunks (symmetric in its arguments)
Similarity(sim, a, b) == sim[{a, b}]

\* the similarity level that config.similarity_threshold * 0.8 falls on
MultihopThreshold == 1

\* iteration order of chunks_map (dict insertion order)
CorpusOrder == <<"A", "B", "C">>

RECURSIVE AtLevel(_, _, _, _)
\* the chunks other than target with similarity = level, in corpus order
AtLevel(target, sim, level, k) ==
    IF k > Len(CorpusOrder) THEN <<>>
    ELSE (IF CorpusOrder[k] # target /\ Similarity(sim, target, CorpusOrder[k]) = level
          THEN <<CorpusOrder[k]>> ELSE <<>>)
         \o AtLevel(target, sim, level, k + 1)

RECURSIVE FromLevel(_, _, _)
\* stable sort, descending by similarity, of the chunks that meet the threshold
FromLevel(target, sim, level) ==
    IF level < MultihopThreshold THEN <<>>
    ELSE AtLevel(target, sim, level, 1) \o FromLevel(target, sim, level - 1)

_find_similar_chunks(target, sim) == FromLevel(target, sim, MaxSim)

SimilarityMaps == [{p \in SUBSET ChunkIds : Cardinality(p) = 2} -> 0..MaxSim]

\* similar_chunks[:n]
Prefix(s, n) == SubSeq(s, 1, IF n < Len(s) THEN n ELSE Len(s))

-----------------------------------------------------------------------------
(* ChunkCombinationFinder.find_multihop_combinations, step by step          *)

min_size == chunk_range[1]
max_size == chunk_range[2]

NoSimilarity == [p \in {} |-> 0]

FinderInputs ==
    /\ chunks_map \in Corpora
    /\ facts \in SeqsUpTo(AllIds, MaxFacts)
    /\ chunk_range \in SizeRanges

FinderStart ==
    /\ fpc = "explicit"
    /\ fi = 1
    /\ ri = 0
    /\ base_combo = <<>>
    /\ target_size = 0
    /\ available_chunks = {}
    /\ similarity = NoSimilarity
    /\ explicit_combinations = <<>>
    /\ semantic_combinations = <<>>
    /\ unique_combinations = <<>>
    /\ valid_combinations = <<>>

FinderIdle ==
    /\ chunks_map = [c \in ChunkIds |-> <<>>]
    /\ facts = <<>>
    /\ chunk_range = <<2, 2>>
    /\ fpc = "idle"
    /\ fi = 0
    /\ ri = 0
    /\ base_combo = <<>>
    /\ target_size = 0
    /\ available_chunks = {}
    /\ similarity = NoSimilarity
    /\ explicit_combinations = <<>>
    /\ semantic_combinations = <<>>
    /\ unique_combinations = <<>>
    /\ valid_combinations = <<>>

\* the related_chunks of the chunk of fact number k
RelatedOfFact(k) == chunks_map[facts[k]]

\* chunks_map.get(fact.chunk_id) is None, or the chunk has no related_chunks
SkipsExplicit(k) ==
    \/ facts[k] \notin DOMAIN chunks_map
    \/ RelatedOfFact(k) = <<>>

\* _find_explicit_combinations: `for fact in facts`, up to the inner for
ExplicitFact ==
    /\ fpc = "explicit"
    /\ fi <= Len(facts)
    /\ IF SkipsExplicit(fi)
       THEN /\ fi' = fi + 1
            /\ UNCHANGED <<fpc, ri>>
       ELSE /\ fpc' = "related"
            /\ ri' = 1
            /\ UNCHANGED fi
    /\ UNCHANGED <<chunks_map, facts, chunk_range, base_combo, target_size,
                   available_chunks, similarity, explicit_combinations,
                   semantic_combinations, unique_combinations, valid_combinations>>
    /\ UNCHANGED <<genVars, filterVars, embedVars, factoryVars, loaderVars, validateVars, raceVars>>

\* the candidates of the extension loop for the pair (chunk_id, related_id)
AvailableChunks(chunk_id, related_id) ==
    (Range(chunks_map[chunk_id]) \cup Range(chunks_map[related_id]))
        \ {chunk_id, related_id}

\* `for related_id in chunk.related_chunks`: seed the pair and draw the target
ExplicitSeed ==
    /\ fpc = "related"
    /\ IF ri > Len(RelatedOfFact(fi))
       THEN /\ fpc' = "explicit"
            /\ fi' = fi + 1
            /\ ri' = 0
            /\ UNCHANGED <<base_combo, target_size, available_chunks>>
       ELSE LET related_id == RelatedOfFact(fi)[ri]
            IN  IF related_id \notin DOMAIN chunks_map
                THEN /\ ri' = ri + 1
                     /\ UNCHANGED <<fpc, fi, base_combo, target_size, available_chunks>>
                ELSE /\ \E t \in min_size..max_size : target_size' = t
                     /\ base_combo' = <<facts[fi], related_id>>
                     /\ available_chunks' = AvailableChunks(facts[fi], related_id)
                     /\ fpc' = "extend"
                     /\ UNCHANGED <<fi, ri>>
    /\ UNCHANGED <<chunks_map, facts, chunk_range, similarity, explicit_combinations,
                   semantic_combinations, unique_combinations, valid_combinations>>
    /\ UNCHANGED <<genVars, filterVars, embedVars, factoryVars, loaderVars, validateVars, raceVars>>

\* the condition of `while len(base_combo) < target_size and available_chunks`
ExtendMore == Len(base_combo) < target_size /\ available_chunks # {}

\* a mutation of ExplicitExtend: an id that does not resolve stays in the set
ExplicitExtendKeepsUnresolved ==
    /\ fpc = "extend"
    /\ ExtendMore
    /\ \E next_chunk \in available_chunks :
          IF InChunksMap(next_chunk, chunks_map)
          THEN /\ available_chunks' = available_chunks \ {next_chunk}
               /\ base_combo' = Append(base_combo, next_chunk)
          ELSE UNCHANGED <<available_chunks, base_combo>>
    /\ UNCHANGED <<chunks_map, facts, chunk_range, fpc, fi, ri, target_size,
                   similarity, explicit_combinations, semantic_combinations,
                   unique_combinations, valid_combinations>>
    /\ UNCHANGED <<genVars, filterVars, embedVars, factoryVars, loaderVars, validateVars, raceVars>>

\* one iteration of the while loop: set.pop() takes an arbitrary element
ExplicitExtend ==
    /\ fpc = "extend"
    /\ ExtendMore
    /\ \E next_chunk \in available_chunks :
          /\ available_chunks' = available_chunks \ {next_chunk}
          /\ base_combo' = IF InChunksMap(next_chunk, chunks_map)
                           THEN Append(base_combo, next_chunk)
                           ELSE base_combo
    /\ UNCHANGED <<chunks_map, facts, chunk_range, fpc, fi, ri, target_size,
                   similarity, explicit_combinations, semantic_combinations,
                   unique_combinations, valid_combinations>>
    /\ UNCHANGED <<genVars, filterVars, embedVars, factoryVars, loaderVars, validateVars, raceVars>>

\* after the while loop: `if len(base_combo) >= min_size: combinations.append`
ExplicitAppend ==
    /\ fpc = "extend"
    /\ ~ExtendMore
    /\ explicit_combinations' =
          IF Len(base_combo) >= min_size
          THEN Append(explicit_combinations, base_combo)
          ELSE explicit_combinations
    /\ fpc' = "related"
    /\ ri' = ri + 1
    /\ base_combo' = <<>>
    /\ target_size' = 0
    /\ available_chunks' = {}
    /\ UNCHANGED <<chunks_map, facts, chunk_range, fi, similarity,
                   semantic_combinations, unique_combinations, valid_combinations>>
    /\ UNCHANGED <<genVars, filterVars, embedVars, factoryVars, loaderVars, validateVars, raceVars>>

\* _compute_chunk_embeddings: the provider fixes the similarity of every pair;
\* an error of embedding_provider.encode leaves find_multihop_combinations, and
\* generate_multihop_queries when it is the caller (line 207 is outside any try)
ComputeChunkEmbeddings ==
    /\ fpc = "explicit"
    /\ fi > Len(facts)
    /\ IF encode_ok
       THEN /\ \E sim \in SimilarityMaps : similarity' = sim
            /\ fpc' = "semantic"
            /\ fi' = 1
            /\ UNCHANGED gpc
       ELSE /\ fpc' = "raised"
            /\ gpc' = IF gpc = "idle" THEN gpc ELSE "raised"
            /\ UNCHANGED <<similarity, fi>>
    /\ UNCHANGED <<chunks_map, facts, chunk_range, ri, base_combo, target_size,
                   available_chunks, explicit_combinations, semantic_combinations,
                   unique_combinations, valid_combinations>>
    /\ UNCHANGED <<per_combination, ci, qi, attempts, gen_queries>>
    /\ UNCHANGED <<filterVars, embedVars, factoryVars, loaderVars, validateVars, raceVars>>

\* a mutation of SemanticCombination: similar_chunks[:target_size]
SemanticCombinationOffByOne(chunk_id, t) ==
    <<chunk_id>> \o Prefix(_find_similar_chunks(chunk_id, similarity), t)

\* the combination of one fact in _find_semantic_combinations, for target t
SemanticCombination(chunk_id, t) ==
    <<chunk_id>> \o Prefix(_find_similar_chunks(chunk_id, similarity), t - 1)

\* a mutation of SkipsSemantic: relations that do not resolve do not count
SkipsSemanticIfResolvable(k) ==
    \/ facts[k] \notin DOMAIN chunks_map
    \/ \E r \in 1..Len(RelatedOfFact(k)) : RelatedOfFact(k)[r] \in DOMAIN chunks_map

\* `if not chunk: continue` and `if chunk.related_chunks: continue`
SkipsSemantic(k) ==
    \/ facts[k] \notin DOMAIN chunks_map
    \/ RelatedOfFact(k) # <<>>

\* _find_semantic_combinations: one iteration of `for fact in facts`
SemanticFact ==
    /\ fpc = "semantic"
    /\ fi <= Len(facts)
    /\ IF \/ SkipsSemantic(fi)
          \/ Len(_find_similar_chunks(facts[fi], similarity)) < 1
       THEN UNCHANGED semantic_combinations
       ELSE \E t \in min_size..max_size :
               LET combination == SemanticCombination(facts[fi], t)
               IN  semantic_combinations' =
                      IF Len(combination) >= min_size
                      THEN Append(semantic_combinations, combination)
                      ELSE semantic_combinations
    /\ fi' = fi + 1
    /\ UNCHANGED <<chunks_map, facts, chunk_range, fpc, ri, base_combo, target_size,
                   available_chunks, similarity, explicit_combinations,
                   unique_combinations, valid_combinations>>
    /\ UNCHANGED <<genVars, filterVars, embedVars, factoryVars, loaderVars, validateVars, raceVars>>

\* find_multihop_combinations: combinations.extend(...) twice, then dedup
Deduplicate ==
    /\ fpc = "semantic"
    /\ fi > Len(facts)
    /\ unique_combinations' =
          _deduplicate_combinations(explicit_combinations \o semantic_combinations)
    /\ fpc' = "validate"
    /\ UNCHANGED <<chunks_map, facts, chunk_range, fi, ri, base_combo, target_size,
                   available_chunks, similarity, explicit_combinations,
                   semantic_combinations, valid_combinations>>
    /\ UNCHANGED <<genVars, filterVars, embedVars, factoryVars, loaderVars, validateVars, raceVars>>

\* find_multihop_combinations: validate and return
Validate ==
    /\ fpc = "validate"
    /\ valid_combinations' = _validate_combinations(unique_combinations, chunks_map)
    /\ fpc' = "found"
    /\ UNCHANGED <<chunks_map, facts, chunk_range, fi, ri, base_combo, target_size,
                   available_chunks, similarity, explicit_combinations,
                   semantic_combinations, unique_combinations>>
    /\ UNCHANGED <<genVars, filterVars, embedVars, factoryVars, loaderVars, validateVars, raceVars>>

NextFinder ==
    \/ ExplicitFact
    \/ ExplicitSeed
    \/ ExplicitExtend
    \/ ExplicitAppend
    \/ ComputeChunkEmbeddings
    \/ SemanticFact
    \/ Deduplicate
    \/ Validate

-----------------------------------------------------------------------------
(* EmbeddingProviderFactory                                                 *)

ProviderNames == {"model2vec", "sentence-transformers"}

\* the values of preferred_provider: the two names and any other string
Preferences == ProviderNames \cup {"other"}

\* a mutation of CandidateOrder: the preference is ignored
CandidateOrderDefault(preferred_provider) == <<"model2vec", "sentence-transformers">>

\* the list `providers` that create_provider builds
CandidateOrder(preferred_provider) ==
    IF preferred_provider = "model2vec"
    THEN <<"model2vec", "sentence-transformers">>
    ELSE IF preferred_provider = "sentence-transformers"
    THEN <<"sentence-transformers", "model2vec">>
    ELSE <<"model2vec", "sentence-transformers">>

RECURSIVE FirstAvailable(_, _)
\* `for _, provider_class in providers`: the first whose is_available() holds,
\* as a list of at most one name
FirstAvailable(providers, avail) ==
    IF providers = <<>> THEN <<>>
    ELSE IF Head(providers) \in avail THEN <<Head(providers)>>
    ELSE FirstAvailable(Tail(providers), avail)

\* create_provider: the provider it returns or the error it raises
create_provider(preferred_provider, avail) ==
    LET usable == FirstAvailable(CandidateOrder(preferred_provider), avail)
    IN  IF usable = <<>>
        THEN [raised |-> "RuntimeError", provider |-> "None"]
        ELSE [raised |-> "None", provider |-> usable[1]]

get_default_provider(avail) == create_provider("model2vec", avail)

\* a working backend: both providers installed, model2vec selected
FactoryIdle ==
    /\ available = ProviderNames
    /\ encode_ok = TRUE
    /\ embedding_provider = "model2vec"
    /\ created = <<>>

-----------------------------------------------------------------------------
(* ChunkProcessor: loading chunks from JSONL files                          *)

FileNames == {"a.jsonl", "b.jsonl"}     \* the names glob("*.jsonl") can yield
LoaderIds == {"A", "B"}                 \* the chunk_ids the lines can carry

\* related_chunks of a line: missing, None or [] (all falsy), or one id
LineRelatedLists == {<<>>} \cup {<<r>> : r \in LoaderIds \cup {AbsentId}}

\* a line of a file, after strip(): blank, not JSON ("malformed"), JSON that
\* ChunkData.model_validate rejects ("invalid"), or a chunk record
BlankLine     == [kind |-> "blank", chunk_id |-> "", related_chunks |-> <<>>]
MalformedLine == [kind |-> "malformed", chunk_id |-> "", related_chunks |-> <<>>]
InvalidLine   == [kind |-> "invalid", chunk_id |-> "", related_chunks |-> <<>>]
ChunkLines    == [kind : {"chunk"}, chunk_id : LoaderIds, related_chunks : LineRelatedLists]
Lines         == {BlankLine, MalformedLine, InvalidLine} \cup ChunkLines

FileContents == UNION {[1..n -> Lines] : n \in 0..MaxLines}
Directories  == UNION {[S -> FileContents] : S \in SUBSET FileNames}

\* the orders in which glob can list the files
GlobOrders(dir) ==
    {order \in [1..Cardinality(DOMAIN dir) -> DOMAIN dir] :
        \A a, b \in DOMAIN order : order[a] = order[b] => a = b}

\* the ChunkData of a line
ChunkOf(line) == [chunk_id |-> line.chunk_id, related_chunks |-> line.related_chunks]

LoaderIdle ==
    /\ jsonl_dir = <<>>
    /\ self_chunk_ids = {}
    /\ loads = <<>>

\* the duplicate check skipped
IsDuplicateNever(chunk_id, ids) == FALSE
\* `chunk.chunk_id in self.chunk_ids`
IsDuplicate(chunk_id, ids) == chunk_id \in ids

\* the loop of _load_jsonl_file from line k on; ids is self.chunk_ids, which
\* keeps what was added before a raise
RECURSIVE LoadLines(_, _, _, _)
LoadLines(lines, k, chunks, ids) ==
    IF k > Len(lines)
    THEN [raised |-> "None", chunks |-> chunks, chunk_ids |-> ids]
    ELSE LET line == lines[k]
         IN  IF line.kind = "blank"
             THEN LoadLines(lines, k + 1, chunks, ids)
             ELSE IF line.kind \in {"malformed", "invalid"}
             THEN [raised |-> "ValueError", chunks |-> <<>>, chunk_ids |-> ids]
             ELSE IF IsDuplicate(line.chunk_id, ids)
             THEN [raised |-> "ValueError", chunks |-> <<>>, chunk_ids |-> ids]
             ELSE LoadLines(lines, k + 1, Append(chunks, ChunkOf(line)),
                            ids \cup {line.chunk_id})

_load_jsonl_file(lines, ids) == LoadLines(lines, 1, <<>>, ids)

\* every reference taken as existing
ValidateNothing(chunks) == "None"
\* "ValueError" when some related id is the chunk_id of no loaded chunk
_validate_chunk_references(chunks) ==
    LET chunk_id_set == {chunks[k].chunk_id : k \in 1..Len(chunks)}
    IN  IF \E k \in 1..Len(chunks) :
              \E r \in 1..Len(chunks[k].related_chunks) :
                  chunks[k].related_chunks[r] \notin chunk_id_set
        THEN "ValueError"
        ELSE "None"

\* the loop over jsonl_files from file k on
RECURSIVE LoadFiles(_, _, _, _, _)
LoadFiles(order, k, dir, chunks, ids) ==
    IF k > Len(order)
    THEN [raised |-> "None", chunks |-> chunks, chunk_ids |-> ids]
    ELSE LET file_chunks == _load_jsonl_file(dir[order[k]], ids)
         IN  IF file_chunks.raised # "None"
             THEN file_chunks
             ELSE LoadFiles(order, k + 1, dir, chunks \o file_chunks.chunks,
                            file_chunks.chunk_ids)

load_chunks_from_directory(order, dir, ids) ==
    IF order = <<>>
    THEN [raised |-> "FileNotFoundError", chunks |-> <<>>, chunk_ids |-> ids,
          warnings |-> {}]
    ELSE LET loaded == LoadFiles(order, 1, dir, <<>>, ids)
         IN  IF loaded.raised # "None"
             THEN [raised |-> loaded.raised, chunks |-> <<>>,
                   chunk_ids |-> loaded.chunk_ids, warnings |-> {}]
             ELSE IF _validate_chunk_references(loaded.chunks) # "None"
             THEN [raised |-> "ValueError", chunks |-> <<>>,
                   chunk_ids |-> loaded.chunk_ids, warnings |-> {}]
             ELSE [raised |-> "None", chunks |-> loaded.chunks,
                   chunk_ids |-> loaded.chunk_ids, warnings |-> {}]

\* warnings: the (chunk, related id) pairs printed as not in this file
load_chunks_from_file(lines, ids) ==
    LET loaded == _load_jsonl_file(lines, ids)
        chunk_ids_in_file == {loaded.chunks[k].chunk_id : k \in 1..Len(loaded.chunks)}
    IN  [raised |-> loaded.raised, chunks |-> loaded.chunks,
         chunk_ids |-> loaded.chunk_ids,
         warnings |-> {w \in LoaderIds \X (LoaderIds \cup {AbsentId}) :
                          /\ w[2] \notin chunk_ids_in_file
                          /\ \E k \in 1..Len(loaded.chunks) :
                                /\ loaded.chunks[k].chunk_id = w[1]
                                /\ \E r \in 1..Len(loaded.chunks[k].related_chunks) :
                                      loaded.chunks[k].related_chunks[r] = w[2]}]

-----------------------------------------------------------------------------
(* Components at rest                                                       *)

GenIdle ==
    /\ per_combination = 1
    /\ gpc = "idle"
    /\ ci = 0
    /\ qi = 0
    /\ attempts = <<>>
    /\ gen_queries = <<>>

\* no encode call yet
NoCall == [model |-> <<>>, texts |-> <<>>, single |-> FALSE, computed |-> <<>>,
           result |-> <<>>, value |-> <<>>, raised |-> "None"]

\* no record given to model_validate
ValidateIdle ==
    /\ obj = <<>>
    /\ validated = <<>>

\* the file of the shared cache key: whether it exists, and which halves of
\* the pickle it holds (none: zero bytes; only the second: a hole before it)
AbsentFile == [exists |-> FALSE, first |-> FALSE, second |-> FALSE]

\* no process in encode
RaceIdle ==
    /\ cache_file = AbsentFile
    /\ rpc = <<>>
    /\ encoded = <<>>

EmbedIdle ==
    /\ cache_files = <<>>
    /\ encode_calls = 0
    /\ backend_calls = 0
    /\ last_call = NoCall
    /\ stored_ok = {}
    /\ returned = <<>>

-----------------------------------------------------------------------------
(* AdversarialMultiHopGenerator._parse_multihop_response                    *)

(* A reply of the text-generation capability is a string of tokens:        *)
(*   "Q" "A" "R"  the literal texts QUERY: ANSWER: REASONING:               *)
(*   "n"          a newline,  "s"  a blank                                  *)
(*   any other    a word (text without white space and without a tag)      *)

IsSpace(tok) == tok \in {"n", "s"}

\* re.search: the first occurrence of the tag after which the pattern can match;
\* \s*(.+?) needs one character after the tag, and the last alternative of the
\* lookahead is the end of the string: 0 when there is none
TagMatch(response, tag) ==
    LET starts == {p \in 1..(Len(response) - 1) : response[p] = tag}
    IN  IF starts = {} THEN 0
        ELSE CHOOSE p \in starts : \A q \in starts : p <= q

\* where (.+?) starts: \s* is greedy, and gives one character back when nothing
\* but white space follows the tag
GroupStart(response, p) ==
    LET text == {q \in (p + 1)..Len(response) : ~IsSpace(response[q])}
    IN  IF text = {} THEN Len(response)
        ELSE CHOOSE q \in text : \A r \in text : q <= r

\* the lookahead (?=\n<next tag>|$) right after position e; $ also matches
\* before a final newline. The REASONING pattern ends in $ alone (next = "")
LookaheadHolds(response, e, next) ==
    \/ e = Len(response)
    \/ e = Len(response) - 1 /\ response[Len(response)] = "n"
    \/ /\ next # ""
       /\ e + 2 <= Len(response)
       /\ response[e + 1] = "n"
       /\ response[e + 2] = next

\* where the lazy (.+?) ends
GroupEnd(response, q, next) ==
    CHOOSE e \in q..Len(response) :
        /\ LookaheadHolds(response, e, next)
        /\ \A f \in q..(e - 1) : ~LookaheadHolds(response, f, next)

RECURSIVE LStrip(_)
LStrip(text) ==
    IF text # <<>> /\ IsSpace(Head(text)) THEN LStrip(Tail(text)) ELSE text

RECURSIVE RStrip(_)
RStrip(text) ==
    IF text # <<>> /\ IsSpace(text[Len(text)])
    THEN RStrip(SubSeq(text, 1, Len(text) - 1)) ELSE text

\* str.strip()
Strip(text) == RStrip(LStrip(text))

\* match.group(1).strip() if match else None
Extract(response, tag, next) ==
    LET p == TagMatch(response, tag)
    IN  IF p = 0 THEN [matched |-> FALSE, text |-> <<>>]
        ELSE LET q == GroupStart(response, p)
             IN  [matched |-> TRUE,
                  text |-> Strip(SubSeq(response, q, GroupEnd(response, q, next)))]

_parse_multihop_response(response) ==
    [query_text  |-> Extract(response, "Q", "A"),
     answer_fact |-> Extract(response, "A", "R"),
     reasoning   |-> Extract(response, "R", "")]

\* `not text`: None or the empty string
Falsy(opt) == ~opt.matched \/ opt.text = <<>>

-----------------------------------------------------------------------------
(* AdversarialMultiHopGenerator.generate_multihop_queries                   *)

WellFormedReply  == <<"Q", "s", "x", "n", "A", "s", "y", "n", "R", "s", "z">>
NoReasoningReply == <<"Q", "s", "x", "n", "A", "s", "y">>
NoQueryReply     == <<"A", "s", "y", "n", "R", "s", "z">>
NoAnswerReply    == <<"Q", "s", "x", "n", "R", "s", "z">>
EmptyQueryReply  == <<"Q", "n", "A", "s", "y", "n", "R", "s", "z">>
EmptyAnswerReply == <<"Q", "s", "x", "n", "A", "s">>
NoTagReply       == <<"x", "s", "y">>

Replies == {WellFormedReply, NoReasoningReply, NoQueryReply, NoAnswerReply,
            EmptyQueryReply, EmptyAnswerReply, NoTagReply}

\* what llm_provider.generate_text does on one call: it returns a reply, raises
\* a generic provider error, or reports a rate limit
TextOutcomes ==
    [kind : {"reply"}, reply : Replies]
        \cup {[kind |-> "error", reply |-> <<>>], [kind |-> "rate_limit", reply |-> <<>>]}

\* a mutation of _generate_single_multihop_query: the test for an empty
\* query_text or answer_fact is missing
GenerateWithoutEmptyCheck(chunk_ids, outcome) ==
    IF outcome.kind # "reply" THEN <<>>
    ELSE LET parsed == _parse_multihop_response(outcome.reply)
         IN  <<[query_text       |-> parsed.query_text.text,
                source_chunk_ids |-> chunk_ids,
                answer_fact      |-> parsed.answer_fact.text,
                difficulty       |-> "multi-hop",
                reasoning        |-> parsed.reasoning,
                realism_rating   |-> 0,
                status           |-> "pending"]>>

\* _generate_single_multihop_query: the RAGQuery it returns, as a list of at most
\* one element (empty for None). Every exception of generate_text is caught by
\* its `except Exception` and gives None.
_generate_single_multihop_query(chunk_ids, outcome) ==
    IF outcome.kind # "reply" THEN <<>>
    ELSE LET parsed == _parse_multihop_response(outcome.reply)
         IN  IF Falsy(parsed.query_text) \/ Falsy(parsed.answer_fact)
             THEN <<>>
             ELSE <<[query_text       |-> parsed.query_text.text,
                     source_chunk_ids |-> chunk_ids,
                     answer_fact      |-> parsed.answer_fact.text,
                     difficulty       |-> "multi-hop",
                     reasoning        |-> parsed.reasoning,
                     realism_rating   |-> 0,
                     status           |-> "pending"]>>

GenStartState ==
    /\ gpc = "start"
    /\ ci = 0
    /\ qi = 0
    /\ attempts = <<>>
    /\ gen_queries = <<>>

\* a mutation of GenCombinations: an empty list of combinations is an error
GenCombinationsRaisesOnEmpty ==
    /\ gpc = "start"
    /\ fpc = "found"
    /\ fpc' = "returned"
    /\ similarity' = NoSimilarity
    /\ explicit_combinations' = <<>>
    /\ semantic_combinations' = <<>>
    /\ unique_combinations' = <<>>
    /\ fi' = 0
    /\ IF valid_combinations = <<>>
       THEN /\ gpc' = "error"
            /\ UNCHANGED <<ci, qi>>
       ELSE /\ gpc' = "loop"
            /\ ci' = 1
            /\ qi' = 0
    /\ UNCHANGED <<chunks_map, facts, chunk_range, ri, base_combo, target_size,
                   available_chunks, valid_combinations>>
    /\ UNCHANGED <<per_combination, attempts, gen_queries>>
    /\ UNCHANGED <<filterVars, embedVars, factoryVars, loaderVars, validateVars, raceVars>>

\* generate_multihop_queries receives the combinations; the frame of
\* find_multihop_combinations is gone
GenCombinations ==
    /\ gpc = "start"
    /\ fpc = "found"
    /\ fpc' = "returned"
    /\ similarity' = NoSimilarity
    /\ explicit_combinations' = <<>>
    /\ semantic_combinations' = <<>>
    /\ unique_combinations' = <<>>
    /\ fi' = 0
    /\ IF valid_combinations = <<>>
       THEN /\ gpc' = "done"
            /\ UNCHANGED <<ci, qi>>
       ELSE /\ gpc' = "loop"
            /\ ci' = 1
            /\ qi' = 0
    /\ UNCHANGED <<chunks_map, facts, chunk_range, ri, base_combo, target_size,
                   available_chunks, valid_combinations>>
    /\ UNCHANGED <<per_combination, attempts, gen_queries>>
    /\ UNCHANGED <<filterVars, embedVars, factoryVars, loaderVars, validateVars, raceVars>>

\* one iteration of `for i in range(multihop_queries_per_combination)` for
\* combination number ci, with a capability whose behaviour is one of outcomes
GenAttemptOn(capability_outcomes) ==
    /\ gpc = "loop"
    /\ ci <= Len(valid_combinations)
    /\ \E outcome \in capability_outcomes :
          /\ attempts' = Append(attempts, [combination |-> ci, index |-> qi,
                                           outcome |-> outcome])
          /\ gen_queries' = gen_queries \o
                _generate_single_multihop_query(valid_combinations[ci], outcome)
    /\ IF qi + 1 < per_combination
       THEN /\ qi' = qi + 1
            /\ UNCHANGED ci
       ELSE /\ qi' = 0
            /\ ci' = ci + 1
    /\ UNCHANGED <<per_combination, gpc>>
    /\ UNCHANGED <<finderVars, filterVars, embedVars, factoryVars, loaderVars, validateVars, raceVars>>

\* an attempt with a capability that may reply anything, fail or report a rate limit
GenAttempt == GenAttemptOn(TextOutcomes)

\* an attempt with a capability that always returns a well-formed reply
GenAttemptWellFormed ==
    GenAttemptOn({[kind |-> "reply", reply |-> WellFormedReply]})

\* the loops are over: return queries
GenReturn ==
    /\ gpc = "loop"
    /\ ci > Len(valid_combinations)
    /\ gpc' = "done"
    /\ UNCHANGED <<per_combination, ci, qi, attempts, gen_queries>>
    /\ UNCHANGED <<finderVars, filterVars, embedVars, factoryVars, loaderVars, validateVars, raceVars>>


-----------------------------------------------------------------------------
(* RAGQueryQualityFilter                                                    *)

\* RealismScoreResponse.score: int, ge=1, le=5
MinScore == 1
MaxScore == 5
Scores   == MinScore..MaxScore

\* what structured_llm.generate_structured does on one call: it returns a
\* response with a score, raises a generic provider error, or raises the
\* rate-limit error
CapabilityOutcomes ==
    [kind : {"response"}, score : Scores]
        \cup {[kind |-> "error", score |-> 0], [kind |-> "rate_limit", score |-> 0]}

\* config.min_realism_score, doubled: 1.0, 1.5, ..., 5.0
Thresholds2 == (2 * MinScore)..(2 * MaxScore)

\* quality_metadata = None (realism_rating 0 stands for None as well)
NoMetadata == [realism_score |-> 0, failed_to_score |-> FALSE]

\* a RAGQuery as the generator creates it (query_id 0; InputQuery sets the id)
PendingQuery ==
    [query_id         |-> 0,
     query_text       |-> <<"x">>,
     source_chunk_ids |-> <<"A", "B">>,
     answer_fact      |-> <<"y">>,
     difficulty       |-> "multi-hop",
     status           |-> "pending",
     realism_rating   |-> 0,
     quality_metadata |-> NoMetadata]

\* the k-th query of the batch handed to filter_queries
InputQuery(k) == [PendingQuery EXCEPT !.query_id = k]

\* scoring_stats as set up at the top of filter_queries
InitialStats(n, thr2) ==
    [total_queries       |-> n,
     scores              |-> <<>>,
     score_distribution  |-> [sc \in Scores |-> 0],
     avg_score           |-> <<0, 1>>,
     pass_rate           |-> <<0, 1>>,
     filtering_threshold |-> thr2]

FilterIdle ==
    /\ queries = <<>>
    /\ threshold2 = 2 * MinScore
    /\ qpc = "idle"
    /\ i = 0
    /\ passed_queries = <<>>
    /\ failed_queries = <<>>
    /\ scoring_stats = InitialStats(0, 2 * MinScore)
    /\ progress_calls = <<>>
    /\ outcomes = <<>>

\* score_query_realism: the response it returns, or the exception that leaves it.
\* Its `except Exception` turns every error of the capability, the rate-limit
\* error included, into the default low score.
score_query_realism(outcome) ==
    IF outcome.kind = "response"
    THEN [raised |-> "None", score |-> outcome.score, failed_to_score |-> FALSE]
    ELSE [raised |-> "None", score |-> MinScore, failed_to_score |-> TRUE]

\* a mutation of MeetsThreshold: > instead of >=
MeetsThresholdStrict(score, thr2) == 2 * score > thr2

\* score_response.score >= self.config.min_realism_score
MeetsThreshold(score, thr2) == 2 * score >= thr2

\* a mutation of ScoredQuery: the status is left as it was
ScoredQueryStatusKept(query, score_response, thr2) ==
    [query EXCEPT
        !.realism_rating = score_response.score,
        !.quality_metadata = [realism_score   |-> score_response.score,
                              failed_to_score |-> score_response.failed_to_score]]

\* "Update query with scoring results" and "Filter based on threshold": the
\* query after filter_queries has written realism_rating, quality_metadata, status
ScoredQuery(query, score_response, thr2) ==
    [query EXCEPT
        !.realism_rating = score_response.score,
        !.quality_metadata = [realism_score   |-> score_response.score,
                              failed_to_score |-> score_response.failed_to_score],
        !.status = IF MeetsThreshold(score_response.score, thr2)
                   THEN "approved" ELSE "rejected"]

\* a mutation of CollectStatistics: the histogram is not updated
CollectStatisticsScoresOnly(stats, score) ==
    [stats EXCEPT !.scores = Append(@, score)]

\* "Collect statistics": scores.append(score); score_distribution[score] += 1
CollectStatistics(stats, score) ==
    [stats EXCEPT !.scores = Append(@, score),
                  !.score_distribution[score] = @ + 1]

RECURSIVE Sum(_)
\* sum(scoring_stats["scores"])
Sum(s) == IF s = <<>> THEN 0 ELSE Head(s) + Sum(Tail(s))

InitFilter ==
    /\ \E n \in 0..MaxQueries : queries = [k \in 1..n |-> InputQuery(k)]
    /\ threshold2 \in Thresholds2
    /\ qpc = "loop"
    /\ i = 0
    /\ passed_queries = <<>>
    /\ failed_queries = <<>>
    /\ scoring_stats = InitialStats(Len(queries), threshold2)
    /\ progress_calls = <<>>
    /\ outcomes = <<>>
    /\ FinderIdle /\ GenIdle /\ EmbedIdle /\ FactoryIdle /\ LoaderIdle /\ ValidateIdle /\ RaceIdle

\* the callback made once the query is scored, with the count after it
LoopProgressAfter(idx, qs) == <<idx + 1, Len(qs)>>
\* progress_callback(i, len(queries), ...) at the top of the loop body
LoopProgress(idx, qs) == <<idx, Len(qs)>>

\* one iteration of `for i, query in enumerate(queries)`; query i is queries[i + 1]
ScoreQuery ==
    /\ qpc = "loop"
    /\ i < Len(queries)
    /\ progress_calls' = Append(progress_calls, LoopProgress(i, queries))
    /\ \E outcome \in CapabilityOutcomes :
          LET score_response == score_query_realism(outcome)
              score          == score_response.score
          IN  /\ outcomes' = Append(outcomes, outcome)
              /\ IF score_response.raised = "RateLimitExceededException"
                 THEN /\ qpc' = "stopped"
                      /\ UNCHANGED <<queries, i, passed_queries, failed_queries,
                                     scoring_stats>>
                 ELSE /\ queries' =
                            [queries EXCEPT ![i + 1] =
                                ScoredQuery(@, score_response, threshold2)]
                      /\ scoring_stats' = CollectStatistics(scoring_stats, score)
                      /\ IF MeetsThreshold(score, threshold2)
                         THEN /\ passed_queries' = Append(passed_queries, i + 1)
                              /\ UNCHANGED failed_queries
                         ELSE /\ failed_queries' = Append(failed_queries, i + 1)
                              /\ UNCHANGED passed_queries
                      /\ i' = i + 1
                      /\ UNCHANGED qpc
    /\ UNCHANGED threshold2
    /\ UNCHANGED <<finderVars, genVars, embedVars, factoryVars, loaderVars, validateVars, raceVars>>

\* after the loop: final statistics, final progress update, return
FilterFinish ==
    /\ \/ qpc = "loop" /\ i = Len(queries)
       \/ qpc = "stopped"
    /\ scoring_stats' =
          IF scoring_stats.scores # <<>>
          THEN [scoring_stats EXCEPT
                   !.avg_score = <<Sum(scoring_stats.scores), Len(scoring_stats.scores)>>,
                   !.pass_rate = <<Len(passed_queries), Len(queries)>>]
          ELSE scoring_stats
    /\ progress_calls' = Append(progress_calls, <<Len(queries), Len(queries)>>)
    /\ qpc' = "done"
    /\ UNCHANGED <<queries, threshold2, i, passed_queries, failed_queries, outcomes>>
    /\ UNCHANGED <<finderVars, genVars, embedVars, factoryVars, loaderVars, validateVars, raceVars>>

NextFilter ==
    \/ ScoreQuery
    \/ FilterFinish

SpecFilter == InitFilter /\ [][NextFilter]_vars

-----------------------------------------------------------------------------
(* BaseEmbeddingProvider.encode and EmbeddingCache                          *)

\* get_model_name() of the providers that share the cache directory, and the
\* texts they encode, as character strings
ModelNames == {<<"m">>, <<"m", ":", "a">>}
Texts      == {<<"b">>, <<"a", ":", "b">>, <<"c">>}

\* _get_cache_path: the md5 of f"{model_name}:{text}" names the file; md5 is
\* taken to be injective, so the hashed string stands for the path
_get_cache_path(text, model_name) == model_name \o <<":">> \o text

\* the vector the backend computes for a text (the backend is deterministic)
Embed(model_name, text) == <<model_name, text>>

\* what a write that fails after open(cache_path, 'wb') leaves behind: a file
\* of zero bytes, or the first part of the pickle
EmptyFile   == <<>>
GarbledFile == <<<<"?">>>>
WriteResidues == {"unchanged", "empty", "partial"}

\* EmbeddingCache.get raises: pickle.load of a file of zero bytes raises
\* EOFError, which `except (pickle.PickleError, IOError)` does not catch
CacheRaises(files, text, model_name) ==
    /\ _get_cache_path(text, model_name) \in DOMAIN files
    /\ files[_get_cache_path(text, model_name)] = EmptyFile

\* EmbeddingCache.get(...) is not None; a truncated pickle raises
\* UnpicklingError and counts as a miss
CacheHit(files, text, model_name) ==
    /\ _get_cache_path(text, model_name) \in DOMAIN files
    /\ files[_get_cache_path(text, model_name)] \notin {EmptyFile, GarbledFile}

\* the file of the (model, text) pair holds the vector written for it
Intact(files, pair) ==
    /\ _get_cache_path(pair[2], pair[1]) \in DOMAIN files
    /\ files[_get_cache_path(pair[2], pair[1])] = Embed(pair[1], pair[2])

\* the file left at the path by a write that raised an OSError
FailedSet(files, text, model_name, residue) ==
    CASE residue = "unchanged" -> files
      [] residue = "empty" -> (_get_cache_path(text, model_name) :> EmptyFile) @@ files
      [] residue = "partial" -> (_get_cache_path(text, model_name) :> GarbledFile) @@ files

\* EmbeddingCache.get: the pickled vector of the file
CacheGet(files, text, model_name) == files[_get_cache_path(text, model_name)]

\* EmbeddingCache.set when the write succeeds: the file is (re)written
CacheSet(files, text, model_name, embedding) ==
    (_get_cache_path(text, model_name) :> embedding) @@ files

RECURSIVE MissIndices(_, _, _, _)
\* indices_to_compute: the positions k.. of texts that miss the cache
MissIndices(files, texts, model_name, k) ==
    IF k > Len(texts) THEN <<>>
    ELSE (IF CacheHit(files, texts[k], model_name) THEN <<>> ELSE <<k>>)
         \o MissIndices(files, texts, model_name, k + 1)

\* a mutation of IndicesToCompute: the cache is not consulted
IndicesToComputeAll(files, texts, model_name) == [k \in 1..Len(texts) |-> k]

IndicesToCompute(files, texts, model_name) == MissIndices(files, texts, model_name, 1)

RECURSIVE StoreComputed(_, _, _, _, _, _, _)
\* the loop that caches the computed embeddings; the writes of the positions in
\* `failing` raise an OSError, which EmbeddingCache.set swallows, and leave
\* `residue` behind
StoreComputed(files, texts, model_name, indices, failing, residue, j) ==
    IF j > Len(indices) THEN files
    ELSE LET original_idx == indices[j]
             after == IF original_idx \in failing
                      THEN FailedSet(files, texts[original_idx], model_name, residue)
                      ELSE CacheSet(files, texts[original_idx], model_name,
                                    Embed(model_name, texts[original_idx]))
         IN  StoreComputed(after, texts, model_name, indices, failing, residue, j + 1)

TextLists == UNION {[1..n -> Texts] : n \in 0..MaxTexts}

InitEmbed == EmbedIdle /\ FinderIdle /\ GenIdle /\ FilterIdle /\ FactoryIdle /\ LoaderIdle /\ ValidateIdle /\ RaceIdle

\* one call of encode(texts) on a provider with the cache attached
Encode ==
    /\ encode_calls < MaxEncodeCalls
    /\ \E model_name \in ModelNames, texts \in TextLists, single \in BOOLEAN :
          /\ single => Len(texts) = 1
          /\ IF \E k \in 1..Len(texts) : CacheRaises(cache_files, texts[k], model_name)
             THEN \* cache.get raises in the loop of lines 83-93: nothing computed
                  /\ last_call' = [model |-> model_name, texts |-> texts,
                                   single |-> single, computed |-> <<>>,
                                   result |-> <<>>, value |-> <<>>,
                                   raised |-> "EOFError"]
                  /\ UNCHANGED <<cache_files, backend_calls, stored_ok, returned>>
             ELSE LET indices_to_compute == IndicesToCompute(cache_files, texts, model_name)
                      texts_to_compute ==
                          [j \in 1..Len(indices_to_compute) |-> texts[indices_to_compute[j]]]
                      embeddings ==
                          [k \in 1..Len(texts) |->
                              IF k \in Range(indices_to_compute)
                              THEN Embed(model_name, texts[k])
                              ELSE CacheGet(cache_files, texts[k], model_name)]
                  IN  \E failing \in SUBSET Range(indices_to_compute),
                         residue \in WriteResidues :
                         /\ failing = {} => residue = "unchanged"
                         /\ cache_files' = StoreComputed(cache_files, texts, model_name,
                                                         indices_to_compute, failing,
                                                         residue, 1)
                         /\ backend_calls' = IF texts_to_compute # <<>>
                                             THEN backend_calls + 1 ELSE backend_calls
                         /\ stored_ok' =
                               {pair \in stored_ok \cup
                                          {<<model_name, texts[k]>> :
                                              k \in Range(indices_to_compute) \ failing} :
                                   Intact(cache_files', pair)}
                         /\ returned' =
                               [p \in {<<model_name, texts[k]>> : k \in 1..Len(texts)}
                                   |-> embeddings[CHOOSE k \in 1..Len(texts) : texts[k] = p[2]]]
                               @@ returned
                         /\ last_call' = [model |-> model_name, texts |-> texts,
                                          single |-> single,
                                          computed |-> texts_to_compute,
                                          result |-> embeddings,
                                          value |-> IF single THEN embeddings[1]
                                                    ELSE embeddings,
                                          raised |-> "None"]
    /\ encode_calls' = encode_calls + 1
    /\ UNCHANGED <<finderVars, genVars, filterVars, factoryVars, loaderVars, validateVars, raceVars>>

NextEmbed ==
    \/ Encode

SpecEmbed == InitEmbed /\ [][NextEmbed]_vars

-----------------------------------------------------------------------------
(* Specification of the combination finder alone                            *)

InitFinder ==
    FinderInputs /\ FinderStart /\ GenIdle /\ FilterIdle /\ EmbedIdle /\ FactoryIdle /\ LoaderIdle /\ ValidateIdle /\ RaceIdle

SpecFinder == InitFinder /\ [][NextFinder]_vars

Init ==
    /\ FinderInputs
    /\ Len(facts) <= MaxPipelineFacts
    /\ FinderStart
    /\ per_combination \in 1..MaxPerCombination
    /\ GenStartState
    /\ FilterIdle
    /\ EmbedIdle
    /\ FactoryIdle /\ LoaderIdle /\ ValidateIdle /\ RaceIdle

Next ==
    \/ ExplicitFact
    \/ ExplicitSeed
    \/ ExplicitExtend
    \/ ExplicitAppend
    \/ ComputeChunkEmbeddings
    \/ SemanticFact
    \/ Deduplicate
    \/ Validate
    \/ GenCombinations
    \/ GenAttempt
    \/ GenReturn

\* generate_multihop_queries: the finder, then the generation loop
Spec == Init /\ [][Next]_vars

InitReliable ==
    /\ FinderInputs
    /\ FinderStart
    /\ per_combination \in 1..MaxPerCombination
    /\ GenStartState
    /\ FilterIdle
    /\ EmbedIdle
    /\ FactoryIdle /\ LoaderIdle /\ ValidateIdle /\ RaceIdle

NextReliable ==
    \/ ExplicitFact
    \/ ExplicitSeed
    \/ ExplicitExtend
    \/ ExplicitAppend
    \/ ComputeChunkEmbeddings
    \/ SemanticFact
    \/ Deduplicate
    \/ Validate
    \/ GenCombinations
    \/ GenAttemptWellFormed
    \/ GenReturn

\* generate_multihop_queries with a capability that always replies well-formed
SpecReliable == InitReliable /\ [][NextReliable]_vars

-----------------------------------------------------------------------------
(* Calls of EmbeddingProviderFactory.create_provider                        *)

InitFactory ==
    /\ available \in SUBSET ProviderNames
    /\ encode_ok = TRUE
    /\ embedding_provider = "None"
    /\ created = <<>>
    /\ FinderIdle /\ GenIdle /\ FilterIdle /\ EmbedIdle /\ LoaderIdle /\ ValidateIdle /\ RaceIdle

\* one call create_provider(preferred_provider, cache_dir)
CreateProvider ==
    /\ Len(created) < MaxFactoryCalls
    /\ \E preferred_provider \in Preferences, with_cache \in BOOLEAN :
          created' = Append(created,
                            [preferred |-> preferred_provider,
                             cache     |-> with_cache,
                             result    |-> create_provider(preferred_provider, available)])
    /\ UNCHANGED <<available, encode_ok, embedding_provider>>
    /\ UNCHANGED <<finderVars, genVars, filterVars, embedVars, loaderVars, validateVars, raceVars>>

NextFactory ==
    \/ CreateProvider

SpecFactory == InitFactory /\ [][NextFactory]_vars

-----------------------------------------------------------------------------
(* Construction of the generator, then generate_multihop_queries            *)

InitConstruct ==
    /\ FinderInputs
    /\ Len(facts) <= MaxPipelineFacts
    /\ fpc = "new"
    /\ fi = 1
    /\ ri = 0
    /\ base_combo = <<>>
    /\ target_size = 0
    /\ available_chunks = {}
    /\ similarity = NoSimilarity
    /\ explicit_combinations = <<>>
    /\ semantic_combinations = <<>>
    /\ unique_combinations = <<>>
    /\ valid_combinations = <<>>
    /\ per_combination \in 1..MaxPerCombination
    /\ gpc = "new"
    /\ ci = 0
    /\ qi = 0
    /\ attempts = <<>>
    /\ gen_queries = <<>>
    /\ available \in SUBSET ProviderNames
    /\ encode_ok \in BOOLEAN
    /\ embedding_provider = "None"
    /\ created = <<>>
    /\ FilterIdle
    /\ EmbedIdle
    /\ LoaderIdle /\ ValidateIdle /\ RaceIdle

\* AdversarialMultiHopGenerator.__init__ followed by the call of
\* generate_multihop_queries (generate_adversarial_multihop_queries): an error of
\* get_default_provider leaves the constructor
Construct ==
    /\ gpc = "new"
    /\ LET made == get_default_provider(available)
       IN  /\ created' = Append(created, [preferred |-> "model2vec", cache |-> TRUE,
                                         result |-> made])
           /\ IF made.raised # "None"
              THEN /\ gpc' = "raised"
                   /\ UNCHANGED <<embedding_provider, fpc>>
              ELSE /\ embedding_provider' = made.provider
                   /\ gpc' = "start"
                   /\ fpc' = "explicit"
    /\ UNCHANGED <<chunks_map, facts, chunk_range, fi, ri, base_combo, target_size,
                   available_chunks, similarity, explicit_combinations,
                   semantic_combinations, unique_combinations, valid_combinations>>
    /\ UNCHANGED <<per_combination, ci, qi, attempts, gen_queries>>
    /\ UNCHANGED <<available, encode_ok>>
    /\ UNCHANGED <<filterVars, embedVars, loaderVars, validateVars, raceVars>>

NextConstruct ==
    \/ Construct
    \/ ExplicitFact
    \/ ExplicitSeed
    \/ ExplicitExtend
    \/ ExplicitAppend
    \/ ComputeChunkEmbeddings
    \/ SemanticFact
    \/ Deduplicate
    \/ Validate
    \/ GenCombinations
    \/ GenAttemptWellFormed
    \/ GenReturn

\* any state of the embedding backend, and a capability that replies well-formed
SpecConstruct == InitConstruct /\ [][NextConstruct]_vars

-----------------------------------------------------------------------------
(* Properties of find_multihop_combinations                                 *)

Found == fpc = "found"

\* the list handed to _deduplicate_combinations
RawCombinations == explicit_combinations \o semantic_combinations

\* how often id occurs in combo
Occurrences(combo, id) == Cardinality({k \in 1..Len(combo) : combo[k] = id})

\* two combinations hold the same ids, each as often (equal sorted tuples)
SameIdTuple(c, d) == \A id \in AllIds : Occurrences(c, id) = Occurrences(d, id)

\* C1: every chunk id of every returned combination is a key of chunks_map,
\* also when facts name unknown chunks and related_chunks name unknown ids.
C1_NoDanglingIds ==
    Found => \A k \in 1..Len(valid_combinations) :
                 \A j \in 1..Len(valid_combinations[k]) :
                     valid_combinations[k][j] \in DOMAIN chunks_map

\* a combination was returned although a fact names an unknown chunk and a
\* chunk of a returned combination lists an unknown id
C1_Witness ==
    /\ Found
    /\ AbsentId \in Range(facts)
    /\ \E k \in 1..Len(valid_combinations) :
          AbsentId \in Range(chunks_map[valid_combinations[k][1]])

\* C5 as stated: for every configured range, every returned combination has
\* min_size <= length <= max_size.
C5_LengthInRange ==
    Found => \A k \in 1..Len(valid_combinations) :
                 /\ min_size <= Len(valid_combinations[k])
                 /\ Len(valid_combinations[k]) <= max_size

\* C5 amended: the same for every range whose max_size is at least 2 (the
\* explicit strategy always seeds a pair).
C5_LengthInRangeFromTwo ==
    (Found /\ max_size >= 2) => \A k \in 1..Len(valid_combinations) :
                 /\ min_size <= Len(valid_combinations[k])
                 /\ Len(valid_combinations[k]) <= max_size

\* both strategies contributed, the extension loop ran short of its target once
\* and a semantic combination was cut to its target
C5_Witness ==
    /\ Found
    /\ max_size >= 2
    /\ explicit_combinations # <<>>
    /\ semantic_combinations # <<>>
    /\ \E k \in 1..Len(valid_combinations) : Len(valid_combinations[k]) = max_size
    /\ \E k \in 1..Len(valid_combinations) : Len(valid_combinations[k]) < max_size

\* C6 as stated: the ids of a returned combination are pairwise distinct; here
\* for the ranges that start at 2 or more, the spec's combinations of 2..K chunks.
C6_DistinctIds ==
    (Found /\ min_size >= 2) => \A k \in 1..Len(valid_combinations) :
                 \A id \in AllIds : Occurrences(valid_combinations[k], id) <= 1

\* the positions of RawCombinations that no earlier position equals up to order
FirstOccurrences ==
    {j \in 1..Len(RawCombinations) :
        \A k \in 1..(j - 1) : ~SameIdTuple(RawCombinations[k], RawCombinations[j])}

\* the p-th smallest of these positions
NthFirstOccurrence(p) ==
    CHOOSE j \in FirstOccurrences :
        Cardinality({k \in FirstOccurrences : k <= j}) = p

\* C7: no two returned combinations have the same sorted id tuple, and of the
\* combinations that differ only in order the first one of
\* explicit ++ semantic is the one kept.
C7_FirstOfEachIdTuple ==
    Found =>
      /\ \A p, q \in 1..Len(valid_combinations) :
            p # q => ~SameIdTuple(valid_combinations[p], valid_combinations[q])
      /\ Len(valid_combinations) = Cardinality(FirstOccurrences)
      /\ \A p \in 1..Len(valid_combinations) :
            valid_combinations[p] = RawCombinations[NthFirstOccurrence(p)]

\* an explicit combination and a later semantic one with the same ids in another
\* order: only the explicit one is returned
C7_Witness ==
    /\ Found
    /\ \E j \in 1..Len(explicit_combinations), k \in 1..Len(semantic_combinations) :
          /\ SameIdTuple(explicit_combinations[j], semantic_combinations[k])
          /\ explicit_combinations[j] # semantic_combinations[k]
          /\ \E p \in 1..Len(valid_combinations) :
                valid_combinations[p] = explicit_combinations[j]
          /\ \A p \in 1..Len(valid_combinations) :
                valid_combinations[p] # semantic_combinations[k]

-----------------------------------------------------------------------------
(* Properties of filter_queries                                             *)

FilterDone == qpc = "done"

\* the queries that filter_queries scored (it set their realism_rating)
ScoredQueries == {k \in 1..Len(queries) : queries[k].realism_rating # 0}

\* the calls of the capability that raised the rate-limit error
RateLimitedCalls == {k \in 1..Len(outcomes) : outcomes[k].kind = "rate_limit"}

\* C2: on return passed and failed are disjoint, together they hold exactly the
\* scored queries, every passed query has realism_rating >= threshold and
\* every failed query that was scored without error has realism_rating < threshold.
C2_Partition ==
    FilterDone =>
      /\ Range(passed_queries) \cap Range(failed_queries) = {}
      /\ Len(passed_queries) + Len(failed_queries) = Cardinality(ScoredQueries)
      /\ Range(passed_queries) \cup Range(failed_queries) = ScoredQueries
      /\ \A k \in Range(passed_queries) : 2 * queries[k].realism_rating >= threshold2
      /\ \A k \in Range(failed_queries) :
            outcomes[k].kind = "response"
                => 2 * queries[k].realism_rating < threshold2

\* a run with a query in passed whose score equals the threshold, a query in
\* failed that was scored without error and one in failed on an error
C2_Witness ==
    /\ FilterDone
    /\ \E k \in Range(passed_queries) : 2 * queries[k].realism_rating = threshold2
    /\ \E k \in Range(failed_queries) : outcomes[k].kind = "response"
    /\ \E k \in Range(failed_queries) : outcomes[k].kind = "error"

\* C3 as stated: when the capability raises the rate-limit error on the k-th
\* query, exactly k-1 queries are scored, the k-th and all later queries get no
\* realism_rating and the capability is not invoked after the k-th query.
C3_RateLimitStops ==
    FilterDone =>
      \A k \in RateLimitedCalls :
          /\ Len(passed_queries) + Len(failed_queries) = k - 1
          /\ \A j \in k..Len(queries) : queries[j].realism_rating = 0
          /\ Len(outcomes) = k

\* C4 as stated: for every threshold in [1,5] a query whose scoring raised a
\* recoverable error gets score 1 with an error explanation, is in failed and not
\* in passed, is rejected, and the rest of the batch is still scored.
C4_ErrorGoesToFailed ==
    FilterDone =>
      \A k \in 1..Len(outcomes) :
          outcomes[k].kind = "error" =>
              /\ queries[k].realism_rating = MinScore
              /\ queries[k].quality_metadata.failed_to_score
              /\ k \in Range(failed_queries)
              /\ k \notin Range(passed_queries)
              /\ queries[k].status = "rejected"
              /\ \A j \in (k + 1)..Len(queries) : j \in ScoredQueries

-----------------------------------------------------------------------------
(* Properties of encode with a cache                                        *)

\* the (model, text) pair at position k of the call made by this step
CallPair(k) == <<last_call'.model, last_call'.texts[k]>>

-----------------------------------------------------------------------------
(* Properties of generate_multihop_queries                                  *)

GenDone == gpc = "done"

Tags == {"Q", "A", "R"}

\* the section of a tag in a reply: what follows the tag up to the next tag or
\* the end of the reply; blank when it holds no word
SectionBlank(reply, tag) ==
    \E p \in 1..Len(reply) :
        /\ reply[p] = tag
        /\ \A q \in 1..(p - 1) : reply[q] # tag
        /\ \A q \in (p + 1)..Len(reply) :
              (\A r \in (p + 1)..(q - 1) : reply[r] \notin Tags)
                  => (IsSpace(reply[q]) \/ reply[q] \in Tags)

\* a failed attempt as the contract describes it: an error of the capability,
\* a reply without QUERY or without ANSWER section, or with one of them blank
FailedAttempt(outcome) ==
    \/ outcome.kind # "reply"
    \/ "Q" \notin Range(outcome.reply)
    \/ "A" \notin Range(outcome.reply)
    \/ SectionBlank(outcome.reply, "Q")
    \/ SectionBlank(outcome.reply, "A")

RECURSIVE SuccessfulCombinations(_)
SuccessfulCombinations(atts) ==
    IF atts = <<>> THEN <<>>
    ELSE (IF FailedAttempt(Head(atts).outcome) THEN <<>>
          ELSE <<valid_combinations[Head(atts).combination]>>)
             \o SuccessfulCombinations(Tail(atts))

NoRateLimit == \A k \in 1..Len(attempts) : attempts[k].outcome.kind # "rate_limit"

\* C9 as stated: when no rate limit is reported, the capability is invoked once
\* for each of the len(combinations) * multihop_queries_per_combination attempts,
\* a failed attempt (generic error, missing or blank QUERY or ANSWER section)
\* leaves no Query, and the returned list holds the Query of every successful
\* attempt in attempt order.
C9_FailedAttemptSkipped ==
    (GenDone /\ NoRateLimit) =>
        /\ Len(attempts) = Len(valid_combinations) * per_combination
        /\ [j \in 1..Len(gen_queries) |-> gen_queries[j].source_chunk_ids]
              = SuccessfulCombinations(attempts)

\* C10 as stated: a rate limit reported during an attempt ends the batch loop, no
\* attempt is made for a later (combination, index) pair.
C10_RateLimitExitsEarly ==
    GenDone => \A k \in 1..Len(attempts) :
                   attempts[k].outcome.kind = "rate_limit" => k = Len(attempts)

-----------------------------------------------------------------------------
(* Properties of the result of filter_queries                               *)

\* what a caller can read off the returned (passed, failed, stats) about an
\* early stop: fewer queries in passed and failed than stats["total_queries"];
\* scoring_stats has no other field that an early stop would set
StoppageVisible ==
    Len(passed_queries) + Len(failed_queries) < scoring_stats.total_queries

\* C11 as stated: when the capability raised the rate-limit error during the
\* batch, the returned (passed, failed, stats) shows that the batch stopped early.
C11_StoppageSignalled ==
    FilterDone => (RateLimitedCalls # {} => StoppageVisible)

-----------------------------------------------------------------------------
(* The end-to-end scenario: A declares B as related                         *)

ScenarioCorpus == [c \in ChunkIds |-> IF c = "A" THEN <<"B">> ELSE <<>>]

\* the scenario's inputs: the corpus, the range [2,2], one query per
\* combination and a fact list over the chunks that holds a fact on A
Scenario ==
    /\ chunks_map = ScenarioCorpus
    /\ chunk_range = <<2, 2>>
    /\ per_combination = 1
    /\ Range(facts) \subseteq ChunkIds
    /\ "A" \in Range(facts)

OneCombinationAB ==
    /\ Len(valid_combinations) = 1
    /\ Len(valid_combinations[1]) = 2
    /\ Range(valid_combinations[1]) = {"A", "B"}

OneQueryAB ==
    /\ Len(gen_queries) = 1
    /\ Len(gen_queries[1].source_chunk_ids) = 2
    /\ Range(gen_queries[1].source_chunk_ids) = {"A", "B"}
    /\ gen_queries[1].difficulty = "multi-hop"

\* C12 as stated: in the scenario, for every fact list with a fact on A and every
\* similarity, the finder returns the single combination {A,B} and the generator
\* returns exactly one multi-hop Query on a permutation of {A,B}.
C12_ScenarioOneQuery ==
    /\ (Scenario /\ Found) => OneCombinationAB
    /\ (Scenario /\ GenDone) => OneQueryAB

\* the semantic strategy adds no pair other than {A,B}: a fact on B or C either
\* has no chunk at the multi-hop similarity threshold, or it is on B and A is
\* its most similar chunk
SemanticAddsNoPair ==
    \A k \in 1..Len(facts) :
        facts[k] \in {"B", "C"} =>
            LET similar_chunks == _find_similar_chunks(facts[k], similarity)
            IN  \/ similar_chunks = <<>>
                \/ facts[k] = "B" /\ similar_chunks[1] = "A"

\* C12 amended: in the scenario, when the semantic strategy adds no other pair,
\* the finder returns the single combination {A,B}; and whenever the finder
\* returned that single combination the generator returns exactly one multi-hop
\* Query on a permutation of {A,B}.
C12_ScenarioOneQueryNoOtherPair ==
    /\ (Scenario /\ Found /\ SemanticAddsNoPair) => OneCombinationAB
    /\ (Scenario /\ GenDone /\ OneCombinationAB) => OneQueryAB

\* the scenario ran to its end with facts on A and on B, and returned one Query
C12_Witness ==
    /\ Scenario
    /\ GenDone
    /\ facts = <<"B", "A">>
    /\ Len(attempts) = 1
    /\ OneQueryAB

\* the scores the capability returned, when every call returned a response
ResponseScores == [k \in 1..Len(outcomes) |-> outcomes[k].score]

\* the stubbed batch of the spec: scores 5, 4, 3, 2, 1 and threshold 3
StubbedBatch ==
    /\ threshold2 = 6
    /\ \A k \in 1..Len(outcomes) : outcomes[k].kind = "response"
    /\ ResponseScores = <<5, 4, 3, 2, 1>>

\* C13: on return the statistics agree with the partition: total_queries counts
\* the input queries, score_distribution[s] the scored queries with score s,
\* avg_score is the mean score of the scored queries, pass_rate the fraction of
\* the queries that passed, filtering_threshold the threshold used; the stubbed
\* batch gives passed = the queries scored 5,4,3, failed = those scored 2,1,
\* avg_score 3.0 and pass_rate 0.6. (Rationals are pairs <<numerator, denominator>>.)
C13_StatisticsAgree ==
    FilterDone =>
      /\ scoring_stats.total_queries = Len(queries)
      /\ \A s \in Scores :
            scoring_stats.score_distribution[s] =
                Cardinality({k \in ScoredQueries : queries[k].realism_rating = s})
      /\ scoring_stats.avg_score[2] > 0
      /\ ScoredQueries # {} =>
            scoring_stats.avg_score[1] * Cardinality(ScoredQueries) =
                Sum([k \in 1..Len(queries) |-> queries[k].realism_rating])
                    * scoring_stats.avg_score[2]
      /\ scoring_stats.pass_rate[2] > 0
      /\ scoring_stats.pass_rate[1] * Len(queries) =
            Len(passed_queries) * scoring_stats.pass_rate[2]
      /\ scoring_stats.filtering_threshold = threshold2
      /\ StubbedBatch =>
            /\ passed_queries = <<1, 2, 3>>
            /\ failed_queries = <<4, 5>>
            /\ scoring_stats.avg_score[1] = 3 * scoring_stats.avg_score[2]
            /\ 5 * scoring_stats.pass_rate[1] = 3 * scoring_stats.pass_rate[2]

\* filter_queries returned for the stubbed batch
C13_Witness ==
    /\ FilterDone
    /\ StubbedBatch
    /\ Len(passed_queries) = 3
    /\ Len(failed_queries) = 2

\* the fields of a query that filter_queries must not touch
Content(query) ==
    <<query.query_id, query.query_text, query.answer_fact, query.difficulty,
      query.source_chunk_ids>>

\* the queries in passed or failed
Partitioned(passed, failed) == Range(passed) \cup Range(failed)

\* C14: every step of filter_queries changes only the query it scores in this
\* step: that query gets realism_rating = its score, quality_metadata, and the
\* status "approved" if it went to passed, "rejected" if it went to failed; every
\* other query, in particular every query not reached yet, is unchanged; and no
\* query's text, answer_fact, difficulty or source_chunk_ids changes.
C14_MutatesScoredOnly ==
    [][/\ Len(queries') = Len(queries)
       /\ \A k \in 1..Len(queries) :
             /\ Content(queries'[k]) = Content(queries[k])
             /\ IF k \in Partitioned(passed_queries', failed_queries')
                        \ Partitioned(passed_queries, failed_queries)
                THEN /\ queries'[k].realism_rating \in Scores
                     /\ outcomes'[k].kind = "response"
                            => queries'[k].realism_rating = outcomes'[k].score
                     /\ queries'[k].quality_metadata # NoMetadata
                     /\ queries'[k].quality_metadata.realism_score
                            = queries'[k].realism_rating
                     /\ k \in Range(passed_queries')
                            => queries'[k].status = "approved"
                     /\ k \in Range(failed_queries')
                            => queries'[k].status = "rejected"
                ELSE queries'[k] = queries[k]]_vars

\* a batch in which a query was rejected, one approved and one not reached yet
C14_Witness ==
    /\ qpc = "loop"
    /\ Len(queries) = 3
    /\ i = 2
    /\ queries[1].status = "rejected"
    /\ queries[2].status = "approved"
    /\ queries[3] = InputQuery(3)

-----------------------------------------------------------------------------
(* Properties of the Queries of generate_multihop_queries                   *)

\* the finder has returned to generate_multihop_queries
Returned == fpc = "returned"

\* C15: every Query in the list generate_multihop_queries builds and returns has
\* difficulty "multi-hop", status "pending", no realism_rating, a non-empty
\* query_text and answer_fact, and as source_chunk_ids one of the combinations
\* the finder returned, all of whose ids are chunks of the corpus.
C15_QueriesWellFormed ==
    \A j \in 1..Len(gen_queries) :
        /\ gen_queries[j].difficulty = "multi-hop"
        /\ gen_queries[j].status = "pending"
        /\ gen_queries[j].realism_rating = 0
        /\ gen_queries[j].query_text # <<>>
        /\ gen_queries[j].answer_fact # <<>>
        /\ \E k \in 1..Len(valid_combinations) :
              gen_queries[j].source_chunk_ids = valid_combinations[k]
        /\ Range(gen_queries[j].source_chunk_ids) \subseteq DOMAIN chunks_map

\* two Queries on different combinations were returned; one attempt got a reply
\* with an empty ANSWER section and one a provider error
C15_Witness ==
    /\ GenDone
    /\ Len(gen_queries) = 2
    /\ gen_queries[1].source_chunk_ids # gen_queries[2].source_chunk_ids
    /\ \E k \in 1..Len(attempts) : attempts[k].outcome.reply = EmptyAnswerReply
    /\ \E k \in 1..Len(attempts) : attempts[k].outcome.kind = "error"

\* C16: when the finder returns no combination, generate_multihop_queries has
\* returned at once: normally, with an empty list and without a call of the
\* text-generation capability.
C16_NoCombinationsNoCalls ==
    (Returned /\ valid_combinations = <<>>) =>
        /\ GenDone
        /\ gen_queries = <<>>
        /\ attempts = <<>>

\* nothing was found for a fact whose chunk has only an unresolvable relation
C16_Witness ==
    /\ GenDone
    /\ valid_combinations = <<>>
    /\ facts # <<>>
    /\ facts[1] \in ChunkIds
    /\ chunks_map[facts[1]] = <<AbsentId>>

-----------------------------------------------------------------------------
(* Properties of the embedding backend                                      *)

\* generate_multihop_queries, or the constructor before it, was left by an exception
GenRaised == gpc = "raised"

\* no provider passes its availability check, or the selected one cannot encode
BackendUnavailable == available = {} \/ ~encode_ok

\* C17 as stated: when the embedding backend is unavailable, multi-hop generation
\* ends as a "zero results" outcome (a normal return of no queries) and raises
\* no exception to its caller.
C17_BackendUnavailableZeroResults ==
    (BackendUnavailable /\ (GenDone \/ GenRaised)) =>
        /\ GenDone
        /\ gen_queries = <<>>

\* the provider a call must give by the preference order, "None" if none is usable
Expected(preferred_provider, avail) ==
    LET other == CHOOSE n \in ProviderNames :
                     n # (IF preferred_provider \in ProviderNames
                          THEN preferred_provider ELSE "model2vec")
        first == CHOOSE n \in ProviderNames : n # other
    IN  IF first \in avail THEN first
        ELSE IF other \in avail THEN other
        ELSE "None"

\* C20: every call of create_provider returns the preferred provider when it is
\* available, the other one only when the preferred one is not (an unknown
\* preference counts as model2vec first), and raises the configuration error
\* if and only if no candidate is available.
C20_FirstAvailableInPreferenceOrder ==
    \A k \in 1..Len(created) :
        LET call == created[k]
        IN  /\ call.result.provider = Expected(call.preferred, available)
            /\ call.preferred \in available => call.result.provider = call.preferred
            /\ (call.result.raised = "RuntimeError") <=> (available = {})
            /\ (call.result.raised = "None") <=> (call.result.provider \in available)

\* the fallback was returned for a preference that is not installed, and the
\* default order was used for an unknown preference
C20_Witness ==
    /\ Len(created) = 2
    /\ available = {"model2vec"}
    /\ created[1].preferred = "sentence-transformers"
    /\ created[1].result.provider = "model2vec"
    /\ created[2].preferred = "other"
    /\ created[2].result.provider = "model2vec"

-----------------------------------------------------------------------------
(* Loads of a ChunkProcessor                                                *)

InitLoader ==
    /\ jsonl_dir \in Directories
    /\ self_chunk_ids = {}
    /\ loads = <<>>
    /\ FinderIdle /\ GenIdle /\ FilterIdle /\ EmbedIdle /\ FactoryIdle
    /\ ValidateIdle /\ RaceIdle

\* one call load_chunks_from_directory(chunks_dir)
LoadChunksFromDirectory ==
    /\ Len(loads) < MaxLoads
    /\ \E order \in GlobOrders(jsonl_dir) :
          LET result == load_chunks_from_directory(order, jsonl_dir, self_chunk_ids)
          IN  /\ loads' = Append(loads, [op |-> "directory", order |-> order,
                                         before |-> self_chunk_ids,
                                         result |-> result])
              /\ self_chunk_ids' = result.chunk_ids
    /\ UNCHANGED jsonl_dir
    /\ UNCHANGED <<finderVars, genVars, filterVars, embedVars, factoryVars,
                   validateVars, raceVars>>

\* one call load_chunks_from_file(file_path) on a file of the directory
LoadChunksFromFile ==
    /\ Len(loads) < MaxLoads
    /\ \E file_path \in DOMAIN jsonl_dir :
          LET result == load_chunks_from_file(jsonl_dir[file_path], self_chunk_ids)
          IN  /\ loads' = Append(loads, [op |-> "file", order |-> <<file_path>>,
                                         before |-> self_chunk_ids,
                                         result |-> result])
              /\ self_chunk_ids' = result.chunk_ids
    /\ UNCHANGED jsonl_dir
    /\ UNCHANGED <<finderVars, genVars, filterVars, embedVars, factoryVars,
                   validateVars, raceVars>>

NextLoader ==
    \/ LoadChunksFromDirectory
    \/ LoadChunksFromFile

SpecLoader == InitLoader /\ [][NextLoader]_vars

-----------------------------------------------------------------------------
(* Properties of the chunk loader                                           *)

\* the (file, line number) positions of the corpus, and the line at each
Positions == {p \in (DOMAIN jsonl_dir) \X (1..MaxLines) : p[2] <= Len(jsonl_dir[p[1]])}
LineAt(p) == jsonl_dir[p[1]][p[2]]
NonBlankPositions == {p \in Positions : LineAt(p).kind # "blank"}
ChunkPositions    == {p \in Positions : LineAt(p).kind = "chunk"}
CorpusIds         == {LineAt(p).chunk_id : p \in ChunkPositions}

DuplicateInCorpus ==
    \E p, q \in ChunkPositions : p # q /\ LineAt(p).chunk_id = LineAt(q).chunk_id
CrossFileDuplicate ==
    \E p, q \in ChunkPositions : p[1] # q[1] /\ LineAt(p).chunk_id = LineAt(q).chunk_id
MalformedInCorpus == \E p \in Positions : LineAt(p).kind = "malformed"
InvalidInCorpus   == \E p \in Positions : LineAt(p).kind = "invalid"

DirectoryLoads == {k \in 1..Len(loads) : loads[k].op = "directory"}
FileLoads      == {k \in 1..Len(loads) : loads[k].op = "file"}

DistinctChunkIds(chunks) ==
    \A a, b \in 1..Len(chunks) : a # b => chunks[a].chunk_id # chunks[b].chunk_id

\* C18: load_chunks_from_directory raises and returns no chunks whenever a
\* chunk_id occurs twice in the corpus (in one file or in two) or a non-blank
\* line is not valid JSON; when it succeeds the returned chunks have pairwise
\* distinct chunk_ids and there is exactly one chunk per non-blank line.
C18_DirectoryLoadStrict ==
    \A k \in DirectoryLoads :
        LET result == loads[k].result
        IN  /\ (DuplicateInCorpus \/ MalformedInCorpus) =>
                   /\ result.raised # "None"
                   /\ result.chunks = <<>>
            /\ result.raised = "None" =>
                   /\ DistinctChunkIds(result.chunks)
                   /\ Len(result.chunks) = Cardinality(NonBlankPositions)
                   /\ NonBlankPositions = ChunkPositions
                   /\ \A p \in NonBlankPositions :
                         \E a \in 1..Len(result.chunks) :
                             result.chunks[a] = ChunkOf(LineAt(p))

\* a first load of two files that hold the same chunk_id, with every line a
\* chunk record, raised
C18_Witness ==
    /\ Len(loads) = 1
    /\ loads[1].op = "directory"
    /\ CrossFileDuplicate
    /\ ~MalformedInCorpus /\ ~InvalidInCorpus
    /\ ~(\E f \in DOMAIN jsonl_dir : \E a, b \in 1..Len(jsonl_dir[f]) :
            a # b /\ jsonl_dir[f][a].chunk_id = jsonl_dir[f][b].chunk_id)
    /\ loads[1].result.raised = "ValueError"

\* a first load of two files with a blank line succeeded with two chunks
C18_SuccessReached ==
    /\ Len(loads) = 1
    /\ loads[1].op = "directory"
    /\ Cardinality(DOMAIN jsonl_dir) = 2
    /\ \E p \in Positions : LineAt(p).kind = "blank"
    /\ loads[1].result.raised = "None"
    /\ Len(loads[1].result.chunks) = 2

DanglingInCorpus ==
    \E p \in ChunkPositions :
        \E r \in 1..Len(LineAt(p).related_chunks) :
            LineAt(p).related_chunks[r] \notin CorpusIds

\* a reference to a chunk that only another file of the corpus holds
CrossFileReference ==
    \E p \in ChunkPositions :
        \E r \in 1..Len(LineAt(p).related_chunks) :
            /\ LineAt(p).related_chunks[r] \in CorpusIds
            /\ \A q \in ChunkPositions :
                  LineAt(q).chunk_id = LineAt(p).related_chunks[r] => q[1] # p[1]

NonBlank(line) == line.kind # "blank"
\* one chunk per non-blank line of a file, in the file's order
ChunksOfFile(lines) ==
    LET kept == SelectSeq(lines, NonBlank)
    IN  [k \in 1..Len(kept) |-> ChunkOf(kept[k])]

\* a file whose lines all load on a processor that has seen the ids in before
FileLoadable(lines, before) ==
    /\ \A k \in 1..Len(lines) : lines[k].kind \in {"blank", "chunk"}
    /\ \A a, b \in 1..Len(lines) :
          (a # b /\ lines[a].kind = "chunk" /\ lines[b].kind = "chunk") =>
              lines[a].chunk_id # lines[b].chunk_id
    /\ \A k \in 1..Len(lines) : lines[k].kind = "chunk" => lines[k].chunk_id \notin before

\* C19: a related_chunks reference to an id that no chunk of the corpus has
\* makes load_chunks_from_directory raise, a reference whose target is only in
\* another file of the corpus does not; load_chunks_from_file never raises for
\* a dangling reference, it warns and returns all chunks of the file.
C19_DanglingReferences ==
    \A k \in 1..Len(loads) :
        LET load == loads[k]
        IN  IF load.op = "directory"
            THEN /\ DanglingInCorpus => load.result.raised # "None"
                 /\ ( /\ DOMAIN jsonl_dir # {}
                      /\ ~DanglingInCorpus
                      /\ \A f \in DOMAIN jsonl_dir : FileLoadable(jsonl_dir[f], load.before)
                      /\ ~DuplicateInCorpus ) =>
                        /\ load.result.raised = "None"
                        /\ Len(load.result.chunks) = Cardinality(ChunkPositions)
            ELSE LET lines == jsonl_dir[load.order[1]]
                 IN  FileLoadable(lines, load.before) =>
                        /\ load.result.raised = "None"
                        /\ load.result.chunks = ChunksOfFile(lines)
                        /\ \A c \in 1..Len(load.result.chunks) :
                              \A r \in 1..Len(load.result.chunks[c].related_chunks) :
                                  LET related_id == load.result.chunks[c].related_chunks[r]
                                  IN  (\A d \in 1..Len(load.result.chunks) :
                                          load.result.chunks[d].chunk_id # related_id)
                                      <=> <<load.result.chunks[c].chunk_id, related_id>>
                                              \in load.result.warnings

\* a directory load accepted a reference from one file into the other
C19_Witness ==
    /\ Len(loads) = 1
    /\ loads[1].op = "directory"
    /\ CrossFileReference
    /\ loads[1].result.raised = "None"

\* a directory load raised for a reference to an id of no chunk, in a corpus
\* that is otherwise loadable
C19_DanglingRaised ==
    /\ Len(loads) = 1
    /\ loads[1].op = "directory"
    /\ DanglingInCorpus
    /\ \A f \in DOMAIN jsonl_dir : FileLoadable(jsonl_dir[f], {})
    /\ ~DuplicateInCorpus
    /\ loads[1].result.raised = "ValueError"

\* a file load returned its chunks and warned about a reference to an id of
\* no chunk of the corpus
C19_FileWarned ==
    /\ Len(loads) = 1
    /\ loads[1].op = "file"
    /\ loads[1].result.raised = "None"
    /\ \E w \in loads[1].result.warnings : w[2] = AbsentId

\* C21: a failed cache write never fails an encode call: whatever writes of
\* EmbeddingCache.set failed before, every encode call returns, with one
\* vector per input text.
C21_FailedWriteNeverFailsEncode ==
    /\ last_call.raised = "None"
    /\ Len(last_call.result) = Len(last_call.texts)

-----------------------------------------------------------------------------
(* ChunkData.model_validate                                                 *)

\* the keys a record can carry at top level, besides custom_metadata, which
\* the record holds apart; section stands for source_document as well
known_fields  == {"chunk_id", "text", "section", "related_chunks"}
UnknownKeys   == {"page", "author"}
MetadataKeys  == {"page", "lang"}
\* values: two well-typed ones, and one of a type the field does not accept
FieldValues   == {"v1", "v2"}
WrongType     == "wrong type"

\* a record: its top-level keys except custom_metadata, and custom_metadata,
\* which is absent, None, a dict, or something that is not a dict
MetadataKinds == {"absent", "None", "dict", "not a dict"}
Dicts(keys, values) == UNION {[S -> values] : S \in SUBSET keys}
Records ==
    {r \in [top  : Dicts(known_fields, FieldValues \cup {WrongType}) \cup
                   Dicts(known_fields \cup UnknownKeys, FieldValues),
            kind : MetadataKinds,
            meta : Dicts(MetadataKeys, FieldValues)] :
        r.kind # "dict" => r.meta = <<>>}

Restrict(f, S) == [k \in (DOMAIN f) \cap S |-> f[k]]

\* BaseModel.model_validate of the cleaned record: chunk_id and text are
\* required, every field must have its type, absent optional fields get
\* their defaults
BaseModelValidate(clean) ==
    IF \/ ~({"chunk_id", "text"} \subseteq DOMAIN clean.top)
       \/ \E k \in DOMAIN clean.top : clean.top[k] = WrongType
       \/ clean.kind = "not a dict"
    THEN [raised |-> "ValidationError", fields |-> <<>>, kind |-> "absent",
          custom_metadata |-> <<>>]
    ELSE [raised |-> "None",
          fields |-> clean.top,
          kind |-> IF clean.kind = "absent" THEN "dict" ELSE clean.kind,
          custom_metadata |-> clean.meta]

\* the unknown keys dropped instead of merged
ModelValidateDropExtra(record) ==
    BaseModelValidate([record EXCEPT !.top = Restrict(record.top, known_fields)])
model_validate(record) ==
    LET clean_obj    == Restrict(record.top, known_fields)
        extra_fields == Restrict(record.top, (DOMAIN record.top) \ known_fields)
        existing_metadata == IF record.kind = "dict" THEN record.meta ELSE <<>>
    IN  IF DOMAIN extra_fields # {}
        THEN BaseModelValidate([top  |-> clean_obj,
                                kind |-> "dict",
                                meta |-> extra_fields @@ existing_metadata])
        ELSE BaseModelValidate([top |-> clean_obj, kind |-> record.kind,
                                meta |-> record.meta])

NotValidated == [raised |-> "pending", fields |-> <<>>, kind |-> "absent",
                 custom_metadata |-> <<>>]

InitValidate ==
    /\ obj \in Records
    /\ validated = NotValidated
    /\ FinderIdle /\ GenIdle /\ FilterIdle /\ EmbedIdle /\ FactoryIdle
    /\ LoaderIdle /\ RaceIdle

\* one call ChunkData.model_validate(obj)
ModelValidate ==
    /\ validated = NotValidated
    /\ validated' = model_validate(obj)
    /\ UNCHANGED obj
    /\ UNCHANGED <<finderVars, genVars, filterVars, embedVars, factoryVars,
                   loaderVars, raceVars>>

NextValidate ==
    \/ ModelValidate

SpecValidate == InitValidate /\ [][NextValidate]_vars

\* the record without its unknown keys would be accepted
KnownPartValid(record) ==
    /\ {"chunk_id", "text"} \subseteq DOMAIN record.top
    /\ \A k \in (DOMAIN record.top) \cap known_fields : record.top[k] # WrongType
HasUnknownKey(record) == (DOMAIN record.top) \ known_fields # {}

\* C22: model_validate never rejects a record because of an unknown key; each
\* unknown key ends up in custom_metadata with its value, every known field
\* keeps its input value, and the given custom_metadata entries are kept
\* except under the name of an unknown top-level key, whose value wins.
C22_UnknownKeysFolded ==
    validated # NotValidated =>
        /\ (HasUnknownKey(obj) /\ KnownPartValid(obj)) => validated.raised = "None"
        /\ (~HasUnknownKey(obj) /\ KnownPartValid(obj) /\ obj.kind # "not a dict")
               => validated.raised = "None"
        /\ validated.raised = "None" =>
              /\ \A k \in (DOMAIN obj.top) \ known_fields :
                    /\ k \in DOMAIN validated.custom_metadata
                    /\ validated.custom_metadata[k] = obj.top[k]
              /\ validated.fields = Restrict(obj.top, known_fields)
              /\ \A k \in DOMAIN obj.meta :
                    /\ k \in DOMAIN validated.custom_metadata
                    /\ validated.custom_metadata[k] =
                           IF k \in DOMAIN obj.top THEN obj.top[k] ELSE obj.meta[k]
              /\ DOMAIN validated.custom_metadata =
                     (DOMAIN obj.meta) \cup ((DOMAIN obj.top) \ known_fields)

\* a record with an unknown key named like an entry of its custom_metadata,
\* with a different value, was accepted
C22_Witness ==
    /\ validated # NotValidated
    /\ validated.raised = "None"
    /\ obj.kind = "dict"
    /\ "page" \in DOMAIN obj.top /\ "page" \in DOMAIN obj.meta
    /\ obj.top["page"] # obj.meta["page"]
    /\ "lang" \in DOMAIN obj.meta
    /\ "author" \in DOMAIN obj.top

-----------------------------------------------------------------------------
(* Properties of the progress callbacks of filter_queries                   *)

\* the queries whose processing has completed: each is in passed or in failed
Completed == Len(passed_queries) + Len(failed_queries)

-----------------------------------------------------------------------------
(* Properties of one encode call                                            *)

\* the text at position k of the call made by this step has no complete
\* vector in the cache when the call starts
Missed(k) ==
    LET path == _get_cache_path(last_call'.texts[k], last_call'.model)
    IN  \/ path \notin DOMAIN cache_files
        \/ cache_files[path] \in {EmptyFile, GarbledFile}

RECURSIVE MissedTexts(_)
\* the texts of the call from position k on that missed, in input order
MissedTexts(k) ==
    IF k > Len(last_call'.texts) THEN <<>>
    ELSE (IF Missed(k) THEN <<last_call'.texts[k]>> ELSE <<>>) \o MissedTexts(k + 1)

\* the step is an encode call
IsEncodeCall == encode_calls' = encode_calls + 1

\* the call returns one vector per text, each the embedding of its text, calls
\* the backend at most once, with exactly the texts that missed, in order
OneVectorPerTextInOrder ==
    /\ last_call'.raised = "None"
    /\ Len(last_call'.result) = Len(last_call'.texts)
    /\ \A k \in 1..Len(last_call'.texts) :
          last_call'.result[k] = Embed(last_call'.model, last_call'.texts[k])
    /\ last_call'.single =>
          last_call'.value = Embed(last_call'.model, last_call'.texts[1])
    /\ ~last_call'.single => last_call'.value = last_call'.result
    /\ last_call'.computed = MissedTexts(1)
    /\ backend_calls' = backend_calls + (IF MissedTexts(1) = <<>> THEN 0 ELSE 1)

\* C24: for every input list and every mix of cache hits and misses, encode
\* returns one vector per input text in input order, result[i] being the
\* embedding of texts[i], invokes the backend at most once, with exactly the
\* texts that missed the cache in their order; a single string gives the
\* single vector of that text.
C24_OneVectorPerTextInOrder ==
    [][IsEncodeCall => OneVectorPerTextInOrder]_vars

\* no file of the cache is empty, and no file holds the vector of another
\* (model, text) pair than the one the call asks for
NoDamagedOrForeignFile ==
    /\ \A path \in DOMAIN cache_files : cache_files[path] # EmptyFile
    /\ \A k \in 1..Len(last_call'.texts) :
          ~Missed(k) =>
              cache_files[_get_cache_path(last_call'.texts[k], last_call'.model)]
                  = Embed(last_call'.model, last_call'.texts[k])

\* the same, for calls that find neither an empty file nor the file of
\* another pair
C24_HoldsOnSoundCache ==
    [][(IsEncodeCall /\ NoDamagedOrForeignFile) => OneVectorPerTextInOrder]_vars

\* C25: a cached vector belongs to exactly one (model, text) pair: whatever
\* was stored, get(text, model) returns only a vector stored for that text
\* and that model name, also for names and texts that contain ':'.
C25_VectorOfItsPairOnly ==
    \A model_name \in ModelNames, text \in Texts :
        CacheHit(cache_files, text, model_name) =>
            CacheGet(cache_files, text, model_name) = Embed(model_name, text)

\* the same for the pairs of one model name
C25_HoldsWithinOneModel ==
    \A text \in Texts :
        CacheHit(cache_files, text, <<"m">>) /\ (\A p \in stored_ok : p[1] = <<"m">>) =>
            CacheGet(cache_files, text, <<"m">>) = Embed(<<"m">>, text)

-----------------------------------------------------------------------------
(* Two processes encoding the same text with the same model and cache       *)

Procs == {1, 2}

TruncatedFile == [exists |-> TRUE, first |-> FALSE, second |-> FALSE]
CompleteFile  == [exists |-> TRUE, first |-> TRUE, second |-> TRUE]

NotCalled == [calls |-> 0, result |-> "none", computed |-> 0]

InitRace ==
    /\ cache_file \in {AbsentFile, CompleteFile}
    /\ rpc = [p \in Procs |-> "idle"]
    /\ encoded = [p \in Procs |-> NotCalled]
    /\ FinderIdle /\ GenIdle /\ FilterIdle /\ EmbedIdle /\ FactoryIdle
    /\ LoaderIdle /\ ValidateIdle

RaceUnchanged ==
    UNCHANGED <<finderVars, genVars, filterVars, embedVars, factoryVars,
                loaderVars, validateVars>>

\* encode(text) is called
RaceCall(p) ==
    /\ rpc[p] = "idle"
    /\ encoded[p].calls < MaxRaceCalls
    /\ rpc' = [rpc EXCEPT ![p] = "exists"]
    /\ encoded' = [encoded EXCEPT ![p].calls = @ + 1, ![p].result = "pending"]
    /\ UNCHANGED cache_file
    /\ RaceUnchanged

\* EmbeddingCache.get: cache_path.exists()
RaceExists(p) ==
    /\ rpc[p] = "exists"
    /\ rpc' = [rpc EXCEPT ![p] = IF cache_file.exists THEN "load" ELSE "compute"]
    /\ UNCHANGED <<cache_file, encoded>>
    /\ RaceUnchanged

\* EmbeddingCache.get: open(cache_path, 'rb') and pickle.load. The complete
\* pickle gives the vector; zero bytes raise EOFError, which leaves get and
\* encode; any other content raises UnpicklingError, which get turns into None
RaceLoad(p) ==
    /\ rpc[p] = "load"
    /\ IF cache_file = CompleteFile
       THEN /\ rpc' = [rpc EXCEPT ![p] = "idle"]
            /\ encoded' = [encoded EXCEPT ![p].result = "vector"]
       ELSE IF cache_file = TruncatedFile
       THEN /\ rpc' = [rpc EXCEPT ![p] = "idle"]
            /\ encoded' = [encoded EXCEPT ![p].result = "EOFError"]
       ELSE /\ rpc' = [rpc EXCEPT ![p] = "compute"]
            /\ UNCHANGED encoded
    /\ UNCHANGED cache_file
    /\ RaceUnchanged

\* _encode_batch([text])
RaceCompute(p) ==
    /\ rpc[p] = "compute"
    /\ rpc' = [rpc EXCEPT ![p] = "open"]
    /\ encoded' = [encoded EXCEPT ![p].computed = @ + 1]
    /\ UNCHANGED cache_file
    /\ RaceUnchanged

\* EmbeddingCache.set: open(cache_path, 'wb') creates or truncates the file
RaceOpen(p) ==
    /\ rpc[p] = "open"
    /\ cache_file' = TruncatedFile
    /\ rpc' = [rpc EXCEPT ![p] = "dump"]
    /\ UNCHANGED encoded
    /\ RaceUnchanged

\* EmbeddingCache.set: pickle.dump; the buffer reaches the file either at once
\* when the file is closed, or its first part now and the rest at the close
RaceDump(p) ==
    /\ rpc[p] = "dump"
    /\ \/ /\ cache_file' = CompleteFile
          /\ rpc' = [rpc EXCEPT ![p] = "idle"]
          /\ encoded' = [encoded EXCEPT ![p].result = "vector"]
       \/ /\ cache_file' = [cache_file EXCEPT !.first = TRUE]
          /\ rpc' = [rpc EXCEPT ![p] = "close"]
          /\ UNCHANGED encoded
    /\ RaceUnchanged

\* EmbeddingCache.set: the end of the `with` block writes the rest at the
\* offset this process has reached; encode returns the computed vector
RaceClose(p) ==
    /\ rpc[p] = "close"
    /\ cache_file' = [cache_file EXCEPT !.second = TRUE]
    /\ rpc' = [rpc EXCEPT ![p] = "idle"]
    /\ encoded' = [encoded EXCEPT ![p].result = "vector"]
    /\ RaceUnchanged

NextRace ==
    \/ \E p \in Procs : RaceCall(p)
    \/ \E p \in Procs : RaceExists(p)
    \/ \E p \in Procs : RaceLoad(p)
    \/ \E p \in Procs : RaceCompute(p)
    \/ \E p \in Procs : RaceOpen(p)
    \/ \E p \in Procs : RaceDump(p)
    \/ \E p \in Procs : RaceClose(p)

SpecRace == InitRace /\ [][NextRace]_vars

\* C26: concurrent use of one cache key is safe: when two encode calls for the
\* same (model, text) interleave their cache file operations, every get gives
\* a miss or the complete vector, a partly written entry is a miss that is
\* recomputed, and neither encode call fails.
C26_ConcurrentUseSafe ==
    \A p \in Procs : encoded[p].result \in {"none", "pending", "vector"}

\* when no process is in encode and some call has written, the file is complete
C26_FileCompleteAtRest ==
    ((\A p \in Procs : rpc[p] = "idle") /\ cache_file.exists) =>
        cache_file = CompleteFile

\* a process read a partly written file, took it as a miss and returned the
\* vector it computed itself
C26_PartialReadRecomputed ==
    \E p, q \in Procs :
        /\ p # q
        /\ encoded[p].computed = 1 /\ encoded[q].computed = 1
        /\ encoded[p].result = "vector" /\ encoded[q].result = "vector"
        /\ encoded[p].calls = 1 /\ encoded[q].calls = 1

-----------------------------------------------------------------------------
(* One call of _generate_single_multihop_query                              *)

ReplyTokens == {"Q", "A", "R", "s", "n", "x", "y"}

\* a section of a reply: nothing, or the tag and up to MaxBodyLen tokens
SectionsOf(tag) ==
    {<<>>} \cup {<<tag>> \o body : body \in SeqsUpTo({"s", "n", "x"}, MaxBodyLen)}

\* replies in sections, in any of the three places a section can take, joined
\* by a newline, a blank or nothing; and arbitrary short replies
SectionedReplies ==
    {q \o j1 \o a \o j2 \o r :
        q \in SectionsOf("Q"), a \in SectionsOf("A"), r \in SectionsOf("R"),
        j1 \in {<<"n">>, <<"s">>, <<>>}, j2 \in {<<"n">>, <<>>}}
ParserReplies == SectionedReplies \cup SeqsUpTo(ReplyTokens, MaxReplyLen)

InitSingle ==
    /\ per_combination = 1
    /\ gpc = "single"
    /\ ci = 0
    /\ qi = 0
    /\ attempts = <<>>
    /\ gen_queries = <<>>
    /\ FinderIdle /\ FilterIdle /\ EmbedIdle /\ FactoryIdle
    /\ LoaderIdle /\ ValidateIdle /\ RaceIdle

\* _generate_single_multihop_query(["A", "B"], ...) with a capability that
\* returns any reply or raises
GenerateSingle ==
    /\ gpc = "single"
    /\ \E outcome \in [kind : {"reply"}, reply : ParserReplies]
                         \cup {[kind |-> "error", reply |-> <<>>]} :
          /\ attempts' = <<[combination |-> 0, index |-> 0, outcome |-> outcome]>>
          /\ gen_queries' = _generate_single_multihop_query(<<"A", "B">>, outcome)
    /\ gpc' = "returned"
    /\ UNCHANGED <<per_combination, ci, qi>>
    /\ UNCHANGED <<finderVars, filterVars, embedVars, factoryVars, loaderVars,
                   validateVars, raceVars>>

NextSingle ==
    \/ GenerateSingle

SpecSingle == InitSingle /\ [][NextSingle]_vars

-----------------------------------------------------------------------------
(* Properties of the reply parser                                           *)

TagPositions(reply) == {p \in 1..Len(reply) : reply[p] \in Tags}

\* a reply in sections: each tag at most once, in the order QUERY, ANSWER,
\* REASONING, each at the start of a line
Sectioned(reply) ==
    /\ \A p, q \in TagPositions(reply) :
          /\ reply[p] = reply[q] => p = q
          /\ p < q => <<reply[p], reply[q]>> \in {<<"Q", "A">>, <<"Q", "R">>, <<"A", "R">>}
    /\ \A p \in TagPositions(reply) : p = 1 \/ reply[p - 1] = "n"

HasSection(reply, tag) == tag \in Range(reply)

\* the trimmed text of the section of a tag: what stands between the tag and
\* the next tag, or the end of the reply
SectionText(reply, tag) ==
    LET p     == CHOOSE q \in 1..Len(reply) : reply[q] = tag
        later == {q \in TagPositions(reply) : q > p}
        stop  == IF later = {} THEN Len(reply) + 1
                 ELSE CHOOSE q \in later : \A r \in later : q <= r
    IN  Strip(SubSeq(reply, p + 1, stop - 1))

HasText(reply, tag) == HasSection(reply, tag) /\ SectionText(reply, tag) # <<>>

TheReply == attempts[1].outcome.reply

\* what C27 says of the call on a reply
ParsedBySections(reply) ==
    /\ (~HasText(reply, "Q") \/ ~HasText(reply, "A")) => gen_queries = <<>>
    /\ (HasText(reply, "Q") /\ HasText(reply, "A")) =>
          /\ Len(gen_queries) = 1
          /\ gen_queries[1].query_text = SectionText(reply, "Q")
          /\ gen_queries[1].answer_fact = SectionText(reply, "A")
          /\ ~HasSection(reply, "R") => ~gen_queries[1].reasoning.matched

\* C27: a reply whose QUERY or ANSWER section is missing or holds no text
\* yields no Query; one with text in both and no REASONING yields a Query
\* with reasoning absent; in a produced Query query_text is exactly the
\* trimmed text of the QUERY section and answer_fact that of the ANSWER section.
C27_ParserSections ==
    (gpc = "returned" /\ attempts[1].outcome.kind = "reply" /\ Sectioned(TheReply))
        => ParsedBySections(TheReply)

\* a QUERY or ANSWER section without text that another section follows
BlankThenSection(reply) ==
    \E tag \in {"Q", "A"} :
        /\ HasSection(reply, tag)
        /\ SectionText(reply, tag) = <<>>
        /\ \E p, q \in TagPositions(reply) : reply[p] = tag /\ p < q

\* the same for the replies in which every QUERY or ANSWER section that is
\* followed by another section holds text
C27_HoldsWithoutBlankSection ==
    (/\ gpc = "returned"
     /\ attempts[1].outcome.kind = "reply"
     /\ Sectioned(TheReply)
     /\ ~BlankThenSection(TheReply))
        => ParsedBySections(TheReply)

-----------------------------------------------------------------------------
(* Properties of the semantic strategy                                      *)

\* the facts _find_semantic_combinations has gone through
SemanticProcessed == IF fpc = "semantic" THEN fi - 1 ELSE Len(facts)

\* the facts among them whose chunk is in the corpus and declares no relation
WithoutRelations ==
    {k \in 1..SemanticProcessed :
        facts[k] \in DOMAIN chunks_map /\ chunks_map[facts[k]] = <<>>}

\* C28: every combination of the semantic strategy starts with the chunk of a
\* fact whose related_chunks is empty; its other members differ from that seed,
\* meet the relaxed threshold on their similarity to it and come in descending
\* similarity; a fact whose chunk declares any related_chunks, resolvable or
\* not, contributes no semantic combination.
C28_SemanticOnlyWithoutRelations ==
    similarity # NoSimilarity =>
        /\ \A k \in 1..Len(semantic_combinations) :
              LET combo == semantic_combinations[k]
                  seed  == combo[1]
              IN  /\ \E f \in WithoutRelations : facts[f] = seed
                  /\ \A j \in 2..Len(combo) :
                        /\ combo[j] # seed
                        /\ combo[j] \in DOMAIN chunks_map
                        /\ Similarity(similarity, seed, combo[j]) >= MultihopThreshold
                  /\ \A j \in 2..(Len(combo) - 1) :
                        Similarity(similarity, seed, combo[j])
                            >= Similarity(similarity, seed, combo[j + 1])
        /\ Len(semantic_combinations) <= Cardinality(WithoutRelations)

\* a semantic combination of three chunks in strictly descending similarity,
\* next to a fact whose chunk declares only a relation that does not resolve
C28_Witness ==
    /\ fpc \notin {"explicit", "semantic"}
    /\ similarity # NoSimilarity
    /\ Len(semantic_combinations) = 1
    /\ Len(semantic_combinations[1]) = 3
    /\ Similarity(similarity, semantic_combinations[1][1], semantic_combinations[1][2])
          > Similarity(similarity, semantic_combinations[1][1], semantic_combinations[1][3])
    /\ \E k \in 1..Len(facts) :
          /\ facts[k] \in DOMAIN chunks_map
          /\ chunks_map[facts[k]] = <<AbsentId>>

-----------------------------------------------------------------------------
(* _find_explicit_combinations alone, running to its end                    *)

ExplicitCorpora ==
    {m \in [ChunkIds -> RelatedLists] :
        Len(m["A"]) + Len(m["B"]) + Len(m["C"]) <= MaxExplicitRelations}

InitExplicit ==
    /\ chunks_map \in ExplicitCorpora
    /\ facts \in SeqsUpTo(AllIds, MaxPipelineFacts)
    /\ chunk_range \in SizeRanges
    /\ FinderStart
    /\ GenIdle /\ FilterIdle /\ EmbedIdle /\ FactoryIdle
    /\ LoaderIdle /\ ValidateIdle /\ RaceIdle

NextExplicit ==
    \/ ExplicitFact
    \/ ExplicitSeed
    \/ ExplicitExtend
    \/ ExplicitAppend

\* the method is sequential code: it keeps running while it has a next step
SpecExplicit == InitExplicit /\ [][NextExplicit]_vars /\ WF_vars(NextExplicit)

\* the candidates of a combination: the related_chunks of its first two chunks
CandidatesOf(combo) == Range(chunks_map[combo[1]]) \cup Range(chunks_map[combo[2]])

\* a combination starts with a fact's chunk and one of its related chunks that
\* resolves, and its further members are candidates
StartsWithRelatedPair(combo) ==
    /\ Len(combo) >= 2
    /\ combo[1] \in Range(facts)
    /\ combo[1] \in DOMAIN chunks_map
    /\ combo[2] \in Range(chunks_map[combo[1]])
    /\ combo[2] \in DOMAIN chunks_map
    /\ \A j \in 3..Len(combo) : combo[j] \in CandidatesOf(combo)

\* the loop has stopped at the target size or for want of candidates: the
\* combination is not extended beyond its target, and is shorter than it only
\* if every candidate that resolves is a member
StoppedAtTargetOrExhausted(combo, target) ==
    /\ Len(combo) > 2 => Len(combo) <= target
    /\ Len(combo) < target =>
          \A c \in CandidatesOf(combo) : c \in DOMAIN chunks_map => c \in Range(combo)

\* C29: every combination of the explicit strategy starts with the pair (a
\* fact's chunk, one of its related chunks that resolves), its further members
\* come from the related_chunks of those two chunks, the extension loop always
\* terminates, and it stops exactly at the drawn target size or when the
\* candidates are exhausted.
C29_ExplicitExtension ==
    /\ [](\A k \in 1..Len(explicit_combinations) :
             StartsWithRelatedPair(explicit_combinations[k]))
    /\ [][explicit_combinations' # explicit_combinations =>
             /\ explicit_combinations' = Append(explicit_combinations, base_combo)
             /\ StoppedAtTargetOrExhausted(base_combo, target_size)]_vars
    /\ [][(fpc = "extend" /\ fpc' = "extend") =>
             Cardinality(available_chunks') < Cardinality(available_chunks)]_vars
    /\ ((fpc = "extend") ~> (fpc # "extend"))
    /\ <>(fpc = "explicit" /\ fi > Len(facts))

\* a cyclic pair A <-> B with a relation that does not resolve: the combination
\* was drawn a target of three and stayed at two chunks
C29_Witness ==
    /\ fpc = "explicit"
    /\ fi > Len(facts)
    /\ chunk_range = <<2, 3>>
    /\ chunks_map["A"] = <<"B", AbsentId>>
    /\ chunks_map["B"] = <<"A">>
    /\ explicit_combinations = <<<<"A", "B">>>>

\* a combination extended to three chunks
C29_Extended ==
    \E k \in 1..Len(explicit_combinations) : Len(explicit_combinations[k]) = 3

-----------------------------------------------------------------------------
(* Repeated loads on one ChunkProcessor                                     *)

\* what a ChunkProcessor that has loaded nothing yet returns for the same listing
FreshLoad(order) == load_chunks_from_directory(order, jsonl_dir, {})

\* C30: loading is repeatable: whatever calls came before on the same
\* ChunkProcessor, load_chunks_from_directory on a valid corpus succeeds with
\* the chunks a fresh ChunkProcessor returns, and a load that raises leaves
\* self.chunk_ids as it was before the call.
C30_LoadRepeatable ==
    \A k \in 1..Len(loads) :
        /\ (loads[k].op = "directory" /\ FreshLoad(loads[k].order).raised = "None") =>
               /\ loads[k].result.raised = "None"
               /\ loads[k].result.chunks = FreshLoad(loads[k].order).chunks
        /\ loads[k].result.raised # "None" =>
               loads[k].result.chunk_ids = loads[k].before

\* the first load of a processor is the load of a fresh one
C30_FirstLoadAsFresh ==
    (Len(loads) >= 1 /\ loads[1].op = "directory") =>
        loads[1].result = FreshLoad(loads[1].order)

\* a valid corpus loaded twice: the second load raised on the ids of the first
C30_SecondLoadRaised ==
    /\ Len(loads) = 2
    /\ loads[1].op = "directory" /\ loads[2].op = "directory"
    /\ loads[1].result.raised = "None"
    /\ loads[1].result.chunks # <<>>
    /\ loads[2].result.raised = "ValueError"

\* a load that raised on its second line kept the id of the first
C30_FailedLoadKeptIds ==
    /\ Len(loads) = 1
    /\ loads[1].result.raised # "None"
    /\ loads[1].before = {}
    /\ loads[1].result.chunk_ids # {}

====
